---------------------------- MODULE Spec2Model ----------------------------
(***************************************************************************)
(* The pixel pipeline of the breeze SNES emulator's PPU:                   *)
(*   src/src/breeze_core/ppu/rendering.rs  (layer dispatch, windows,       *)
(*                                          colour math, brightness,       *)
(*                                          bitplane decoder)              *)
(*   src/src/ppu/bg.rs                     (background layer lookup)       *)
(* The sprite layer, the CGRAM accessor, SnesRgb and the INIDISP accessors *)
(* are not among the source files; they are modelled from spec.md.         *)
(***************************************************************************)
EXTENDS Integers, Sequences, FiniteSets, TLC

VARIABLES
    ppu,    \* the Ppu struct: registers, x, scanline, vram, cgram, oam, sprite cache, flags
    build,  \* "debug" | "release": whether debug_assert! and overflow checks are compiled in
    pc,     \* "idle" (before render_pixel) | "rendered" (render_pixel has returned or panicked)
    ret,    \* what the last render_pixel call returned: [tag, rgb]
    call    \* what the last render_pixel call did (its intermediate values and events)

vars == <<ppu, build, pc, ret, call>>

(***************************************************************************)
(* Fixed-width integer helpers.                                            *)
(***************************************************************************)
\* (v >> lo) & (2^n - 1)
Bits(v, lo, n) == (v \div (2^lo)) % (2^n)

\* v & (1 << k) != 0
BitSet(v, k) == Bits(v, k, 1) = 1

RECURSIVE BitOr(_, _)
\* a | b
BitOr(a, b) ==
    IF a = 0 THEN b
    ELSE IF b = 0 THEN a
    ELSE (IF a % 2 = 1 \/ b % 2 = 1 THEN 1 ELSE 0) + 2 * BitOr(a \div 2, b \div 2)

\* u16 wrapping arithmetic
Wrap16(v) == v % 65536

\* an overflowing u8/u16 operation panics when overflow checks are compiled in
OverflowPanics == build = "debug"

\* debug_assert! is compiled in
DebugAsserts == build = "debug"

(***************************************************************************)
(* Results.  Option<SnesRgb> plus the panic outcome.                       *)
(***************************************************************************)
Black == <<0, 0, 0>>

None == [tag |-> "None", rgb |-> Black, opaque |-> FALSE]

Some(c) == [tag |-> "Some", rgb |-> c, opaque |-> FALSE]

Panic == [tag |-> "Panic", rgb |-> Black, opaque |-> FALSE]

\* the value an integer-valued operator yields when the code panics
PanicValue == 0 - 1

(***************************************************************************)
(* Memories (the accessors are not in src/: from spec.md section 3).       *)
(***************************************************************************)
\* self.vram[addr]: a byte of the 64 KiB VRAM; bytes the scene does not set are 0
vram_read(self, addr) == IF addr \in DOMAIN self.vram THEN self.vram[addr] ELSE 0

\* self.cgram.get_color(i): entry i of the 256-entry palette as (r, g, b), 5 bits each
get_color(self, i) == IF i \in DOMAIN self.cgram THEN self.cgram[i] ELSE Black

\* self.lookup_color(i)
lookup_color(self, i) == get_color(self, i)

(***************************************************************************)
(* src/src/ppu/bg.rs                                                       *)
(***************************************************************************)
bg_enabled(self, bg) == BitSet(self.tm, bg - 1)

tilemap_entry(self, word_address) ==
    LET byte_address == Wrap16(word_address * 2)
        lo == vram_read(self, byte_address)
        hi == vram_read(self, byte_address + 1)
    IN  [vflip       |-> BitSet(hi, 7),
         hflip       |-> BitSet(hi, 6),
         priority    |-> Bits(hi, 5, 1),
         palette     |-> Bits(hi, 2, 3),
         tile_number |-> Bits(hi, 0, 2) * 256 + lo]

bg_mode(self) == Bits(self.bgmode, 0, 3)

\* a bg_settings whose character base counts units of 4096 bytes
bg_settings_chr_bytes(self, bg) ==
    LET bgsc == CASE bg = 1 -> self.bg1sc [] bg = 2 -> self.bg2sc
                  [] bg = 3 -> self.bg3sc [] bg = 4 -> self.bg4sc
        chr  == CASE bg = 1 -> Bits(self.bg12nba, 0, 4) [] bg = 2 -> Bits(self.bg12nba, 4, 4)
                  [] bg = 3 -> Bits(self.bg34nba, 0, 4) [] bg = 4 -> Bits(self.bg34nba, 4, 4)
        hofs == CASE bg = 1 -> self.bg1hofs [] bg = 2 -> self.bg2hofs
                  [] bg = 3 -> self.bg3hofs [] bg = 4 -> self.bg4hofs
        vofs == CASE bg = 1 -> self.bg1vofs [] bg = 2 -> self.bg2vofs
                  [] bg = 3 -> self.bg3vofs [] bg = 4 -> self.bg4vofs
    IN  [mosaic            |-> IF ~BitSet(self.mosaic, bg - 1) THEN 1
                               ELSE Bits(self.mosaic, 4, 4) + 1,
         tilemap_word_addr |-> Wrap16(Bits(bgsc, 2, 6) * 1024),
         tilemap_mirror_h  |-> ~BitSet(bgsc, 0),
         tilemap_mirror_v  |-> ~BitSet(bgsc, 1),
         tile_size         |-> CASE bg_mode(self) \in {5, 6} -> 16
                                 [] bg_mode(self) = 7 -> 8
                                 [] OTHER -> IF ~BitSet(self.bgmode, bg + 3) THEN 8 ELSE 16,
         chr_addr          |-> Wrap16(chr * 2048),
         hscroll           |-> hofs,
         vscroll           |-> vofs]

bg_settings(self, bg) ==
    LET bgsc == CASE bg = 1 -> self.bg1sc [] bg = 2 -> self.bg2sc
                  [] bg = 3 -> self.bg3sc [] bg = 4 -> self.bg4sc
        chr  == CASE bg = 1 -> Bits(self.bg12nba, 0, 4) [] bg = 2 -> Bits(self.bg12nba, 4, 4)
                  [] bg = 3 -> Bits(self.bg34nba, 0, 4) [] bg = 4 -> Bits(self.bg34nba, 4, 4)
        hofs == CASE bg = 1 -> self.bg1hofs [] bg = 2 -> self.bg2hofs
                  [] bg = 3 -> self.bg3hofs [] bg = 4 -> self.bg4hofs
        vofs == CASE bg = 1 -> self.bg1vofs [] bg = 2 -> self.bg2vofs
                  [] bg = 3 -> self.bg3vofs [] bg = 4 -> self.bg4vofs
    IN  [mosaic            |-> IF ~BitSet(self.mosaic, bg - 1) THEN 1
                               ELSE Bits(self.mosaic, 4, 4) + 1,
         tilemap_word_addr |-> Wrap16(Bits(bgsc, 2, 6) * 1024),
         tilemap_mirror_h  |-> ~BitSet(bgsc, 0),
         tilemap_mirror_v  |-> ~BitSet(bgsc, 1),
         tile_size         |-> CASE bg_mode(self) \in {5, 6} -> 16
                                 [] bg_mode(self) = 7 -> 8
                                 [] OTHER -> IF ~BitSet(self.bgmode, bg + 3) THEN 8 ELSE 16,
         chr_addr          |-> Wrap16(chr * 4096),
         hscroll           |-> hofs,
         vscroll           |-> vofs]

\* number of colours of a BG in the current mode; PanicValue where the code panics
color_count_for_bg(self, bg) ==
    CASE bg_mode(self) = 0 -> 4
      [] bg_mode(self) = 1 -> (CASE bg \in {1, 2} -> 16 [] bg = 3 -> 4 [] OTHER -> PanicValue)
      [] bg_mode(self) = 2 -> 16
      [] bg_mode(self) = 3 -> (CASE bg = 1 -> 256 [] bg = 2 -> 16 [] OTHER -> PanicValue)
      [] bg_mode(self) = 4 -> (CASE bg = 1 -> 256 [] bg = 2 -> 4 [] OTHER -> PanicValue)
      [] bg_mode(self) = 5 -> (CASE bg = 1 -> 16 [] bg = 2 -> 4 [] OTHER -> PanicValue)
      [] bg_mode(self) = 6 -> 16
      [] bg_mode(self) = 7 -> PanicValue    \* panic!("NYI: color_count_for_bg for mode 7")

\* a palette base that gives the four BGs of mode 0 the same palettes
palette_base_for_bg_tile_shared(self, bg, palette_num) ==
    CASE bg_mode(self) = 0 -> palette_num * 4
      [] bg_mode(self) \in {1, 5} ->
            IF color_count_for_bg(self, bg) = PanicValue THEN PanicValue
            ELSE (palette_num * (color_count_for_bg(self, bg) % 256)) % 256
      [] bg_mode(self) = 2 -> palette_num * 16
      [] bg_mode(self) = 3 -> (CASE bg = 1 -> 0 [] bg = 2 -> palette_num * 16 [] OTHER -> PanicValue)
      [] bg_mode(self) = 4 -> (CASE bg = 1 -> 0 [] bg = 2 -> palette_num * 4 [] OTHER -> PanicValue)
      [] bg_mode(self) = 6 -> palette_num * 16
      [] bg_mode(self) = 7 -> PanicValue    \* panic!("NYI: palette_base_for_bg_tile for mode 7")

\* palette base of a tile; PanicValue where the code panics
palette_base_for_bg_tile(self, bg, palette_num) ==
    CASE bg_mode(self) = 0 -> palette_num * 4 + (bg - 1) * 32
      [] bg_mode(self) \in {1, 5} ->
            IF color_count_for_bg(self, bg) = PanicValue THEN PanicValue
            ELSE (palette_num * (color_count_for_bg(self, bg) % 256)) % 256
      [] bg_mode(self) = 2 -> palette_num * 16
      [] bg_mode(self) = 3 -> (CASE bg = 1 -> 0 [] bg = 2 -> palette_num * 16 [] OTHER -> PanicValue)
      [] bg_mode(self) = 4 -> (CASE bg = 1 -> 0 [] bg = 2 -> palette_num * 4 [] OTHER -> PanicValue)
      [] bg_mode(self) = 6 -> palette_num * 16
      [] bg_mode(self) = 7 -> PanicValue    \* panic!("NYI: palette_base_for_bg_tile for mode 7")

\* (color_count - 1).count_ones()
count_ones(v) == Cardinality({k \in 0..15 : BitSet(v, k)})

(***************************************************************************)
(* src/src/breeze_core/ppu/rendering.rs: the bitplane decoder              *)
(***************************************************************************)
\* a read_2_bitplanes that takes bit 0 of a byte for x 0
read_2_bitplanes_bit0_left(self, bitplanes_start, x_off, y_off) ==
    LET lo_addr == bitplanes_start + y_off * 2
        hi_addr == bitplanes_start + y_off * 2 + 1
        lo      == vram_read(self, Wrap16(lo_addr))
        hi      == vram_read(self, Wrap16(hi_addr))
        bit0    == Bits(lo, x_off % 8, 1)
        bit1    == Bits(hi, x_off % 8, 1)
    IN  IF OverflowPanics /\ (hi_addr > 65535 \/ x_off > 7) THEN PanicValue
        ELSE bit1 * 2 + bit0

\* 2 bits of one pixel from 2 interleaved bitplanes; PanicValue on a panic
read_2_bitplanes(self, bitplanes_start, x_off, y_off) ==
    LET lo_addr == bitplanes_start + y_off * 2
        hi_addr == bitplanes_start + y_off * 2 + 1
        lo      == vram_read(self, Wrap16(lo_addr))
        hi      == vram_read(self, Wrap16(hi_addr))
        \* 7 - x_off in u8; a shift amount out of range is masked to 3 bits when unchecked
        shift   == ((7 - x_off + 256) % 256) % 8
        bit0    == Bits(lo, shift, 1)
        bit1    == Bits(hi, shift, 1)
    IN  IF OverflowPanics /\ (hi_addr > 65535 \/ x_off > 7) THEN PanicValue
        ELSE bit1 * 2 + bit0

RECURSIVE read_bitplane_pairs(_, _, _, _, _, _)
\* the loop `for i in 0..bitplane_pairs` of read_chr_entry, from pair i on
read_bitplane_pairs(self, i, bitplane_pairs, start_addr, x, y) ==
    IF i >= bitplane_pairs THEN 0
    ELSE LET addr == start_addr + i * 16
             bits == read_2_bitplanes(self, Wrap16(addr), x, y)
             rest == read_bitplane_pairs(self, i + 1, bitplane_pairs, start_addr, x, y)
         IN  IF OverflowPanics /\ addr > 65535 THEN PanicValue
             ELSE IF bits = PanicValue \/ rest = PanicValue THEN PanicValue
             ELSE BitOr((bits * (4 ^ i)) % 256, rest)

\* palette index of a tile's pixel; PanicValue on a panic
read_chr_entry(self, bitplane_count, start_addr, tile_size, x, y, vflip, hflip) ==
    LET bitplane_pairs == bitplane_count \div 2
        fx == IF hflip THEN (tile_size - x - 1 + 256) % 256 ELSE x
        fy == IF vflip THEN (tile_size - y - 1 + 256) % 256 ELSE y
    IN  IF DebugAsserts /\ ( bitplane_count % 2 # 0
                             \/ ~(x <= 7 \/ (x <= 15 /\ tile_size = 16))
                             \/ ~(y <= 7 \/ (y <= 15 /\ tile_size = 16))
                             \/ tile_size # 8 )
        THEN PanicValue
        ELSE IF OverflowPanics /\ ((hflip /\ tile_size - x - 1 < 0) \/ (vflip /\ tile_size - y - 1 < 0))
        THEN PanicValue
        ELSE read_bitplane_pairs(self, 0, bitplane_pairs, start_addr, fx, fy)

(***************************************************************************)
(* src/src/ppu/bg.rs: lookup_bg_color.  The function in src/ takes         *)
(* (bg_num, prio) and reads tm; it passes no flip flags to the decoder.    *)
(***************************************************************************)
\* an address computation that takes the mirror flags uninverted
tilemap_entry_word_address_uninverted(bg, tile_x, tile_y) ==
    LET sx == bg.tilemap_mirror_h
        sy == bg.tilemap_mirror_v
    IN  BitOr(BitOr(BitOr(BitOr(bg.tilemap_word_addr,
                                Bits(tile_y, 0, 5) * 32),
                          Bits(tile_x, 0, 5)),
                    IF sy THEN Wrap16(Bits(tile_y, 5, 1) * 32 * (IF sx THEN 64 ELSE 32)) ELSE 0),
              IF sx THEN Wrap16(Bits(tile_x, 5, 1) * 32 * 32) ELSE 0)

\* the VRAM word address of the tilemap entry for tile (tile_x, tile_y)
tilemap_entry_word_address(bg, tile_x, tile_y) ==
    LET sx == ~bg.tilemap_mirror_h
        sy == ~bg.tilemap_mirror_v
    IN  BitOr(BitOr(BitOr(BitOr(bg.tilemap_word_addr,
                                Bits(tile_y, 0, 5) * 32),
                          Bits(tile_x, 0, 5)),
                    IF sy THEN Wrap16(Bits(tile_y, 5, 1) * 32 * (IF sx THEN 64 ELSE 32)) ELSE 0),
              IF sx THEN Wrap16(Bits(tile_x, 5, 1) * 32 * 32) ELSE 0)

\* a lookup that takes palette index 0 for a colour like the others
lookup_bg_color_zero_opaque(self, bg_num, prio) ==
    IF ~bg_enabled(self, bg_num) THEN None
    ELSE
    LET bg        == bg_settings(self, bg_num)
        tile_size == bg.tile_size
        px        == Wrap16(self.x + bg.hscroll)
        py        == Wrap16(self.scanline + bg.vscroll)
        tile_x    == px \div tile_size
        tile_y    == py \div tile_size
        off_x     == (px % tile_size) % 256
        off_y     == (py % tile_size) % 256
        entry     == tilemap_entry(self, tilemap_entry_word_address(bg, tile_x, tile_y))
        color_count    == color_count_for_bg(self, bg_num)
        bitplane_count == count_ones(color_count - 1)
        start          == Wrap16(bg.chr_addr * 2) + entry.tile_number * 8 * bitplane_count
        palette_base   == palette_base_for_bg_tile(self, bg_num, entry.palette)
        palette_index  == read_chr_entry(self, bitplane_count % 256, Wrap16(start), tile_size,
                                         off_x, off_y, FALSE, FALSE)
    IN  IF entry.priority # prio THEN None
        ELSE IF color_count = PanicValue THEN Panic
        ELSE IF DebugAsserts /\ color_count = 256 /\ BitSet(self.cgwsel, 0) THEN Panic
        ELSE IF OverflowPanics /\ start > 65535 THEN Panic
        ELSE IF palette_base = PanicValue \/ palette_index = PanicValue THEN Panic
        ELSE IF OverflowPanics /\ palette_base + palette_index > 255 THEN Panic
        ELSE Some(lookup_color(self, (palette_base + palette_index) % 256))

lookup_bg_color(self, bg_num, prio) ==
    IF ~bg_enabled(self, bg_num) THEN None
    ELSE
    LET bg        == bg_settings(self, bg_num)
        tile_size == bg.tile_size
        px        == Wrap16(self.x + bg.hscroll)
        py        == Wrap16(self.scanline + bg.vscroll)
        tile_x    == px \div tile_size
        tile_y    == py \div tile_size
        off_x     == (px % tile_size) % 256
        off_y     == (py % tile_size) % 256
        entry     == tilemap_entry(self, tilemap_entry_word_address(bg, tile_x, tile_y))
        color_count    == color_count_for_bg(self, bg_num)
        bitplane_count == count_ones(color_count - 1)
        start          == Wrap16(bg.chr_addr * 2) + entry.tile_number * 8 * bitplane_count
        palette_base   == palette_base_for_bg_tile(self, bg_num, entry.palette)
        palette_index  == read_chr_entry(self, bitplane_count % 256, Wrap16(start), tile_size,
                                         off_x, off_y, FALSE, FALSE)
    IN  IF entry.priority # prio THEN None
        ELSE IF color_count = PanicValue THEN Panic
        ELSE IF DebugAsserts /\ color_count = 256 /\ BitSet(self.cgwsel, 0) THEN Panic
        ELSE IF OverflowPanics /\ start > 65535 THEN Panic
        ELSE IF palette_base = PanicValue \/ palette_index = PanicValue THEN Panic
        ELSE IF palette_index = 0 THEN None
        ELSE IF OverflowPanics /\ palette_base + palette_index > 255 THEN Panic
        ELSE Some(lookup_color(self, (palette_base + palette_index) % 256))

\* the values of the address expressions of lookup_bg_color(bg_num, _) for the current
\* pixel, before truncation to 16 (VRAM) or 8 (CGRAM) bits: word_address << 1 of
\* tilemap_entry, (bg.chr_addr << 1) + tile_number * 8 * bitplane_count, the address of
\* the last byte read_2_bitplanes reads, and palette_base + palette_index
lookup_bg_addresses(self, bg_num) ==
    LET bg        == bg_settings(self, bg_num)
        px        == Wrap16(self.x + bg.hscroll)
        py        == Wrap16(self.scanline + bg.vscroll)
        word      == tilemap_entry_word_address(bg, px \div bg.tile_size, py \div bg.tile_size)
        entry     == tilemap_entry(self, word)
        color_count    == color_count_for_bg(self, bg_num)
        bitplane_count == count_ones(color_count - 1)
        chr_byte       == bg.chr_addr * 2
        start          == Wrap16(chr_byte) + entry.tile_number * 8 * bitplane_count
        palette_base   == palette_base_for_bg_tile(self, bg_num, entry.palette)
        palette_index  == read_chr_entry(self, bitplane_count % 256, Wrap16(start), bg.tile_size,
                                         (px % bg.tile_size) % 256, (py % bg.tile_size) % 256,
                                         FALSE, FALSE)
    IN  [priority           |-> entry.priority,
         tile_number        |-> entry.tile_number,
         bitplane_count     |-> bitplane_count,
         byte_address       |-> word * 2,
         chr_byte           |-> chr_byte,
         bitplane_start_addr |-> start,
         last_byte          |-> Wrap16(start) + 16 * (bitplane_count \div 2 - 1)
                                + 2 * ((py % bg.tile_size) % 256) + 1,
         palette_base       |-> palette_base,
         palette_index      |-> palette_index,
         cgram_index        |-> IF palette_base = PanicValue \/ palette_index = PanicValue
                                THEN PanicValue ELSE palette_base + palette_index]


(***************************************************************************)
(* SnesRgb (not in src/: from spec.md sections 4.6 and 4.7).               *)
(***************************************************************************)
Min(a, b) == IF a < b THEN a ELSE b

Max(a, b) == IF a > b THEN a ELSE b

\* SnesRgb::saturating_add: component-wise 5-bit saturating sum
saturating_add(m, o) == <<Min(31, m[1] + o[1]), Min(31, m[2] + o[2]), Min(31, m[3] + o[3])>>

\* SnesRgb::saturating_sub: component-wise saturating difference
saturating_sub(m, o) == <<Max(0, m[1] - o[1]), Max(0, m[2] - o[2]), Max(0, m[3] - o[3])>>

\* one 5-bit channel expanded to 8 bits: (c << 3) | (c >> 2)
expand(c) == BitOr((c * 8) % 256, c \div 4)

\* SnesRgb::to_adjusted_rgb
to_adjusted_rgb(c) == <<expand(c[1]), expand(c[2]), expand(c[3])>>

\* Ppu::forced_blank(): the forced-blank flag of the display control register
forced_blank(self) == BitSet(self.inidisp, 7)

\* Ppu::brightness(): the 4-bit master brightness
brightness(self) == Bits(self.inidisp, 0, 4)

\* the visible screen (x in [0, 256), scanline in [0, 224))
SCREEN_WIDTH == 256

SCREEN_HEIGHT == 224

(***************************************************************************)
(* The sprite layer (not in src/: from spec.md section 4.3).  obj_size is  *)
(* in rendering.rs.                                                        *)
(***************************************************************************)
\* (width, height) of a sprite
obj_size(self, size_toggle) ==
    CASE Bits(self.obsel, 5, 3) = 0 -> IF ~size_toggle THEN <<8, 8>> ELSE <<16, 16>>
      [] Bits(self.obsel, 5, 3) = 1 -> IF ~size_toggle THEN <<8, 8>> ELSE <<32, 32>>
      [] Bits(self.obsel, 5, 3) = 2 -> IF ~size_toggle THEN <<8, 8>> ELSE <<64, 64>>
      [] Bits(self.obsel, 5, 3) = 3 -> IF ~size_toggle THEN <<16, 16>> ELSE <<32, 32>>
      [] Bits(self.obsel, 5, 3) = 4 -> IF ~size_toggle THEN <<16, 16>> ELSE <<64, 64>>
      [] Bits(self.obsel, 5, 3) = 5 -> IF ~size_toggle THEN <<32, 32>> ELSE <<64, 64>>
      [] Bits(self.obsel, 5, 3) = 6 -> IF ~size_toggle THEN <<16, 32>> ELSE <<32, 64>>
      [] Bits(self.obsel, 5, 3) = 7 -> IF ~size_toggle THEN <<16, 32>> ELSE <<32, 32>>

\* at most this many sprites are collected for a line; more set range_over
SpritesPerLine == 32

\* at most this many 8x8 tiles are fetched for a line; more set time_over
TilesPerLine == 34

\* a sprite is on the line iff y <= scanline < y + h, with Y wrapping mod 256
sprite_on_line(self, e) == (self.scanline - e.y + 256) % 256 < obj_size(self, e.size_toggle)[2]

RECURSIVE sprites_on_line(_, _)
\* the OAM entries on the current line, in OAM order, from entry i on
sprites_on_line(self, i) ==
    IF i > Len(self.oam) THEN <<>>
    ELSE (IF sprite_on_line(self, self.oam[i]) THEN <<self.oam[i]>> ELSE <<>>)
         \o sprites_on_line(self, i + 1)

RECURSIVE tiles_needed(_, _, _)
\* the number of 8x8 tiles the cached sprites need on this line
tiles_needed(self, cache, i) ==
    IF i > Len(cache) THEN 0
    ELSE obj_size(self, cache[i].size_toggle)[1] \div 8 + tiles_needed(self, cache, i + 1)

\* the pre-scan: rebuilds the sprite line cache and sets the overflow flags
collect_sprite_data_for_scanline(self) ==
    LET found == sprites_on_line(self, 1)
        kept  == IF Len(found) > SpritesPerLine THEN SubSeq(found, 1, SpritesPerLine) ELSE found
    IN  [self EXCEPT !.sprites    = kept,
                     !.range_over = self.range_over \/ Len(found) > SpritesPerLine,
                     !.time_over  = self.time_over \/ tiles_needed(self, kept, 1) > TilesPerLine]

\* the 4bpp palette index of cached sprite e at the current x (0 when e does not cover x)
sprite_pixel_index(self, e) ==
    LET size == obj_size(self, e.size_toggle)
        ox0  == self.x - e.x
        oy0  == (self.scanline - e.y + 256) % 256
        ox   == IF e.hflip THEN size[1] - 1 - ox0 ELSE ox0
        oy   == IF e.vflip THEN size[2] - 1 - oy0 ELSE oy0
        tile == e.tile_number + ox \div 8 + 16 * (oy \div 8)
        addr == Wrap16(Bits(self.obsel, 0, 3) * 16384 + tile * 32)
    IN  IF ox0 < 0 \/ ox0 >= size[1] \/ oy0 >= size[2] THEN 0
        ELSE read_chr_entry(self, 4, addr, 8, ox % 8, oy % 8, FALSE, FALSE)

RECURSIVE draw_sprites(_, _, _, _)
\* the sprite pixel of priority prio among cache[i..]: the later entry wins
draw_sprites(self, prio, i, acc) ==
    IF i > Len(self.sprites) THEN acc
    ELSE LET e   == self.sprites[i]
             idx == IF e.priority = prio THEN sprite_pixel_index(self, e) ELSE 0
         IN  IF idx = PanicValue THEN Panic
             ELSE IF idx = 0 THEN draw_sprites(self, prio, i + 1, acc)
             ELSE draw_sprites(self, prio, i + 1,
                      [tag    |-> "Some",
                       rgb    |-> get_color(self, 128 + e.palette * 16 + idx),
                       opaque |-> e.palette < 4])

\* Option<(SnesRgb, opaque)> of the sprite layer at the current pixel
maybe_draw_sprite_pixel(self, prio, subscreen) ==
    IF ~BitSet(IF subscreen THEN self.ts ELSE self.tm, 4) THEN None
    ELSE draw_sprites(self, prio, 1, None)

(***************************************************************************)
(* src/src/breeze_core/ppu/rendering.rs: windows                           *)
(***************************************************************************)
Mask_new(mask_reg, mask_offset, op_reg, op_offset) ==
    LET mask_bits == Bits(mask_reg, mask_offset, 4)
        op_bits   == Bits(op_reg, op_offset, 2)
    IN  [w1_en  |-> BitSet(mask_bits, 1),
         w2_en  |-> BitSet(mask_bits, 3),
         w1_inv |-> BitSet(mask_bits, 0),
         w2_inv |-> BitSet(mask_bits, 2),
         wop    |-> CASE op_bits = 0 -> "Or" [] op_bits = 1 -> "And"
                      [] op_bits = 2 -> "Xor" [] OTHER -> "XNor"]

\* a check whose XNOR arm lacks the negation
Mask_check_xnor_plain(mask, in_w1, in_w2) ==
    LET w1 == in_w1 # mask.w1_inv
        w2 == in_w2 # mask.w2_inv
    IN  CASE ~mask.w1_en /\ ~mask.w2_en -> FALSE
          [] mask.w1_en /\ ~mask.w2_en  -> w1
          [] ~mask.w1_en /\ mask.w2_en  -> w2
          [] mask.w1_en /\ mask.w2_en   ->
                CASE mask.wop = "And"  -> w1 /\ w2
                  [] mask.wop = "Or"   -> w1 \/ w2
                  [] mask.wop = "Xor"  -> w1 # w2
                  [] mask.wop = "XNor" -> w1 # w2

Mask_check(mask, in_w1, in_w2) ==
    LET w1 == in_w1 # mask.w1_inv
        w2 == in_w2 # mask.w2_inv
    IN  CASE ~mask.w1_en /\ ~mask.w2_en -> FALSE
          [] mask.w1_en /\ ~mask.w2_en  -> w1
          [] ~mask.w1_en /\ mask.w2_en  -> w2
          [] mask.w1_en /\ mask.w2_en   ->
                CASE mask.wop = "And"  -> w1 /\ w2
                  [] mask.wop = "Or"   -> w1 \/ w2
                  [] mask.wop = "Xor"  -> w1 # w2
                  [] mask.wop = "XNor" -> ~(w1 # w2)

\* a window 1 that includes its right edge
in_w1_closed(self) == self.x >= self.wh0 /\ self.x <= self.wh1

\* whether the current pixel is inside window 1 / window 2
in_w1(self) == self.x >= self.wh0 /\ self.x < self.wh1

in_w2(self) == self.x >= self.wh2 /\ self.x < self.wh3

\* the six masks of get_raw_pixel; which is 1..4 for a BG and 5 for the sprites
layer_mask(self, which) ==
    CASE which = 1 -> Mask_new(self.w12sel, 0, self.wbglog, 0)
      [] which = 2 -> Mask_new(self.w12sel, 4, self.wbglog, 2)
      [] which = 3 -> Mask_new(self.w34sel, 0, self.wbglog, 4)
      [] which = 4 -> Mask_new(self.w34sel, 4, self.wbglog, 6)
      [] which = 5 -> Mask_new(self.wobjsel, 0, self.wobjlog, 0)

mask_color(self) == Mask_new(self.wobjsel, 4, self.wobjlog, 2)

\* a mask_layer! that does not look at the enable bits of tmw / tsw
mask_layer_always(self, subscreen, which) ==
    Mask_check(layer_mask(self, which), in_w1(self), in_w2(self))

\* mask_layer!: the layer's masking is enabled for this screen and its mask hits
mask_layer(self, subscreen, which) ==
    LET enable_mask_reg == IF subscreen THEN self.tsw ELSE self.tmw
    IN  BitSet(enable_mask_reg, which - 1)
        /\ Mask_check(layer_mask(self, which), in_w1(self), in_w2(self))

\* a clip_color with the rules 01 and 10 exchanged
clip_color_swapped(self) ==
    LET sel == Bits(self.cgwsel, 6, 2)
        hit == Mask_check(mask_color(self), in_w1(self), in_w2(self))
    IN  sel = 3 \/ (sel = 1 /\ hit) \/ (sel = 2 /\ ~hit)

\* colour clipping (cgwsel bits 7:6 against the colour window)
clip_color(self) ==
    LET sel == Bits(self.cgwsel, 6, 2)
        hit == Mask_check(mask_color(self), in_w1(self), in_w2(self))
    IN  sel = 3 \/ (sel = 1 /\ ~hit) \/ (sel = 2 /\ hit)

\* a backdrop that is black instead of colour 0
backdrop_color_black(self) == Black

backdrop_color(self) == get_color(self, 0)

(***************************************************************************)
(* src/src/breeze_core/ppu/rendering.rs: get_raw_pixel                     *)
(***************************************************************************)
\* enum Layer
Bg1 == [l |-> "Bg1", opaque |-> FALSE]

Bg2 == [l |-> "Bg2", opaque |-> FALSE]

Bg3 == [l |-> "Bg3", opaque |-> FALSE]

Bg4 == [l |-> "Bg4", opaque |-> FALSE]

Obj(opaque) == [l |-> "Obj", opaque |-> opaque]

Backdrop == [l |-> "Backdrop", opaque |-> FALSE]

\* bglayer!
bglayer(bg) == CASE bg = 1 -> Bg1 [] bg = 2 -> Bg2 [] bg = 3 -> Bg3 [] bg = 4 -> Bg4

\* try_layer!(Sprites with priority prio)
Sprites(prio) == [kind |-> "Sprites", bg |-> 0, prio |-> prio]

\* try_layer!(BG bg tiles with priority prio)
BG(bg, prio) == [kind |-> "BG", bg |-> bg, prio |-> prio]

\* a dispatch table whose mode 1 ignores the BG3 priority bit (bgmode bit 3)
layer_list_bg3_low(self) ==
    CASE bg_mode(self) = 0 ->
            << Sprites(3), BG(1, 1), BG(2, 1), Sprites(2), BG(1, 0), BG(2, 0),
               Sprites(1), BG(3, 1), BG(4, 1), Sprites(0), BG(3, 0), BG(4, 0) >>
      [] bg_mode(self) = 1 ->
            << Sprites(3), BG(1, 1), BG(2, 1), Sprites(2), BG(1, 0), BG(2, 0), Sprites(1),
               BG(3, 1), Sprites(0), BG(3, 0) >>
      [] bg_mode(self) \in 2..5 ->
            << Sprites(3), BG(1, 1), Sprites(2), BG(2, 1),
               Sprites(1), BG(1, 0), Sprites(0), BG(2, 0) >>
      [] bg_mode(self) = 6 ->
            << Sprites(3), BG(1, 1), Sprites(2), Sprites(1), BG(1, 0), Sprites(0) >>
      [] bg_mode(self) = 7 ->
            << Sprites(3), Sprites(2) >>
            \o (IF BitSet(self.setini, 6) THEN << BG(2, 1) >> ELSE << >>)
            \o << Sprites(1), BG(1, 0), Sprites(0) >>
            \o (IF BitSet(self.setini, 6) THEN << BG(2, 0) >> ELSE << >>)

\* the try_layer! invocations of the match on bg_mode(), in program order
layer_list(self) ==
    CASE bg_mode(self) = 0 ->
            << Sprites(3), BG(1, 1), BG(2, 1), Sprites(2), BG(1, 0), BG(2, 0),
               Sprites(1), BG(3, 1), BG(4, 1), Sprites(0), BG(3, 0), BG(4, 0) >>
      [] bg_mode(self) = 1 ->
            (IF BitSet(self.bgmode, 3) THEN << BG(3, 1) >> ELSE << >>)
            \o << Sprites(3), BG(1, 1), BG(2, 1), Sprites(2), BG(1, 0), BG(2, 0), Sprites(1) >>
            \o (IF ~BitSet(self.bgmode, 3) THEN << BG(3, 1) >> ELSE << >>)
            \o << Sprites(0), BG(3, 0) >>
      [] bg_mode(self) \in 2..5 ->
            << Sprites(3), BG(1, 1), Sprites(2), BG(2, 1),
               Sprites(1), BG(1, 0), Sprites(0), BG(2, 0) >>
      [] bg_mode(self) = 6 ->
            << Sprites(3), BG(1, 1), Sprites(2), Sprites(1), BG(1, 0), Sprites(0) >>
      [] bg_mode(self) = 7 ->
            << Sprites(3), Sprites(2) >>
            \o (IF BitSet(self.setini, 6) THEN << BG(2, 1) >> ELSE << >>)
            \o << Sprites(1), BG(1, 0), Sprites(0) >>
            \o (IF BitSet(self.setini, 6) THEN << BG(2, 0) >> ELSE << >>)

\* the body of one try_layer! once the lookup has returned found: "Hit" with the colour
\* after clipping and the layer, "None" when the code falls through to the next
\* try_layer!, "Panic" when the lookup panicked
layer_result(self, subscreen, cand, found) ==
    IF found.tag = "Panic" THEN [tag |-> "Panic", color |-> Black, layer |-> Backdrop]
    ELSE IF found.tag = "Some"
            /\ ~mask_layer(self, subscreen, IF cand.kind = "Sprites" THEN 5 ELSE cand.bg)
    THEN [tag |-> "Hit",
          color |-> IF ~clip_color(self) THEN found.rgb ELSE backdrop_color(self),
          layer |-> IF cand.kind = "Sprites" THEN Obj(found.opaque) ELSE bglayer(cand.bg)]
    ELSE [tag |-> "None", color |-> Black, layer |-> Backdrop]

\* one try_layer!.  The BG lookup is bg.rs's lookup_bg_color(bg_num, prio).
try_layer(self, subscreen, cand) ==
    layer_result(self, subscreen, cand,
                 IF cand.kind = "Sprites"
                 THEN maybe_draw_sprite_pixel(self, cand.prio, subscreen)
                 ELSE lookup_bg_color(self, cand.bg, cand.prio))

RECURSIVE try_layers(_, _, _, _)
\* after try_layer! number i gave r: return, panic, or go on with number i + 1
try_next(self, subscreen, cands, i, r) ==
    CASE r.tag = "None"  -> try_layers(self, subscreen, cands, i + 1)
      [] r.tag = "Hit"   -> [tag |-> "Ok", color |-> r.color, layer |-> r.layer,
                             consulted |-> SubSeq(cands, 1, i)]
      [] r.tag = "Panic" -> [tag |-> "Panic", color |-> Black, layer |-> Backdrop,
                             consulted |-> SubSeq(cands, 1, i)]

\* the try_layer! invocations cands[i..] in order, then the backdrop
try_layers(self, subscreen, cands, i) ==
    IF i > Len(cands)
    THEN [tag |-> "Ok", color |-> backdrop_color(self), layer |-> Backdrop, consulted |-> cands]
    ELSE try_next(self, subscreen, cands, i, try_layer(self, subscreen, cands[i]))

\* (SnesRgb, Layer) of the main screen or the subscreen, with the candidates consulted
get_raw_pixel(self, subscreen) == try_layers(self, subscreen, layer_list(self), 1)

\* get_raw_pixel was not called
NotRun == [tag |-> "NotRun", color |-> Black, layer |-> Backdrop, consulted |-> << >>]

(***************************************************************************)
(* src/src/breeze_core/ppu/rendering.rs: colour math and render_pixel      *)
(***************************************************************************)
\* a color_math_enabled with the window rules 01 and 10 exchanged
color_math_enabled_swapped(self, layer) ==
    LET bit == CASE layer.l = "Bg1" -> 0 [] layer.l = "Bg2" -> 1 [] layer.l = "Bg3" -> 2
                 [] layer.l = "Bg4" -> 3 [] layer.l = "Obj" -> 4 [] layer.l = "Backdrop" -> 5
        sel == Bits(self.cgwsel, 4, 2)
        hit == Mask_check(Mask_new(self.wobjsel, 4, self.wobjlog, 2), in_w1(self), in_w2(self))
    IN  IF layer.l = "Obj" /\ layer.opaque THEN FALSE
        ELSE IF ~BitSet(self.cgadsub, bit) THEN FALSE
        ELSE ~(sel = 3 \/ (sel = 1 /\ hit) \/ (sel = 2 /\ ~hit))

\* a color_math_enabled that treats opaque sprites like the other sprites
color_math_enabled_opaque(self, layer) ==
    LET bit == CASE layer.l = "Bg1" -> 0 [] layer.l = "Bg2" -> 1 [] layer.l = "Bg3" -> 2
                 [] layer.l = "Bg4" -> 3 [] layer.l = "Obj" -> 4 [] layer.l = "Backdrop" -> 5
        sel == Bits(self.cgwsel, 4, 2)
        hit == Mask_check(Mask_new(self.wobjsel, 4, self.wobjlog, 2), in_w1(self), in_w2(self))
    IN  IF ~BitSet(self.cgadsub, bit) THEN FALSE
        ELSE ~(sel = 3 \/ (sel = 1 /\ ~hit) \/ (sel = 2 /\ hit))

color_math_enabled(self, layer) ==
    LET bit == CASE layer.l = "Bg1" -> 0 [] layer.l = "Bg2" -> 1 [] layer.l = "Bg3" -> 2
                 [] layer.l = "Bg4" -> 3 [] layer.l = "Obj" -> 4 [] layer.l = "Backdrop" -> 5
        sel == Bits(self.cgwsel, 4, 2)
        hit == Mask_check(Mask_new(self.wobjsel, 4, self.wobjlog, 2), in_w1(self), in_w2(self))
    IN  IF layer.l = "Obj" /\ layer.opaque THEN FALSE
        ELSE IF ~BitSet(self.cgadsub, bit) THEN FALSE
        ELSE ~(sel = 3 \/ (sel = 1 /\ ~hit) \/ (sel = 2 /\ hit))

\* SnesRgb::new(coldata_r, coldata_g, coldata_b)
fixed_color(self) == <<self.coldata_r, self.coldata_g, self.coldata_b>>

\* the colour-math operand, given the subscreen pixel (NotRun when it was not fetched)
math_color(self, sub) ==
    IF ~BitSet(self.cgwsel, 1) THEN fixed_color(self)
    ELSE IF sub.layer.l = "Backdrop" THEN fixed_color(self)
    ELSE sub.color

\* an apply_math with the test of cgadsub bit 7 inverted
apply_math_swapped(self, main_pix_color, operand) ==
    IF BitSet(self.cgadsub, 7) THEN saturating_add(main_pix_color, operand)
    ELSE saturating_sub(main_pix_color, operand)

\* add or subtract, by cgadsub bit 7
apply_math(self, main_pix_color, operand) ==
    IF ~BitSet(self.cgadsub, 7) THEN saturating_add(main_pix_color, operand)
    ELSE saturating_sub(main_pix_color, operand)

\* a brightness scaling by brightness / 16 instead of (brightness + 1) / 16
final_color_no_plus_one(self, post_math_color) ==
    LET b == brightness(self)
    IN  IF b = 0 THEN Black
        ELSE << ((post_math_color[1] * b) \div 16) % 256,
                ((post_math_color[2] * b) \div 16) % 256,
                ((post_math_color[3] * b) \div 16) % 256 >>

\* a brightness scaling that takes brightness 0 to mean no scaling
final_color_zero_unscaled(self, post_math_color) ==
    LET b == brightness(self)
    IN  IF b = 0 THEN post_math_color
        ELSE << ((post_math_color[1] * (b + 1)) \div 16) % 256,
                ((post_math_color[2] * (b + 1)) \div 16) % 256,
                ((post_math_color[3] * (b + 1)) \div 16) % 256 >>

\* brightness scaling of the post-math colour
final_color(self, post_math_color) ==
    LET b == brightness(self)
    IN  IF b = 0 THEN Black
        ELSE << ((post_math_color[1] * (b + 1)) \div 16) % 256,
                ((post_math_color[2] * (b + 1)) \div 16) % 256,
                ((post_math_color[3] * (b + 1)) \div 16) % 256 >>

\* the record of a call that did nothing but return
NoCall == [blanked |-> FALSE, events |-> << >>, checks |-> [k \in 1..6 |-> FALSE],
           main |-> NotRun, sub |-> NotRun,
           math |-> FALSE, operand |-> Black, post_math |-> Black, final |-> Black]

\* a start of line that clears the overflow flags on every scanline
prepare_line_clears_each_line(self) ==
    IF self.x = 0
    THEN collect_sprite_data_for_scanline([self EXCEPT !.range_over = FALSE, !.time_over = FALSE])
    ELSE self

\* the start of a frame and of a line: clears the overflow flags at (0, 0), pre-scans
\* the sprites at x = 0
prepare_line(self) ==
    IF self.x = 0 /\ self.scanline = 0
    THEN collect_sprite_data_for_scanline([self EXCEPT !.range_over = FALSE, !.time_over = FALSE])
    ELSE IF self.x = 0 THEN collect_sprite_data_for_scanline(self)
    ELSE self

\* what render_pixel does, in order
render_events(self, sub) ==
    (IF self.x = 0 /\ self.scanline = 0 THEN << "clear_flags" >> ELSE << >>)
    \o (IF self.x = 0 THEN << "prescan" >> ELSE << >>)
    \o << "main_lookup" >>
    \o (IF sub.tag # "NotRun" THEN << "sub_lookup" >> ELSE << >>)

\* mask_bg_1 .. mask_bg_4, mask_sprites, mask_color checked against this pixel
mask_checks(self) ==
    [k \in 1..6 |-> Mask_check(IF k = 6 THEN mask_color(self) ELSE layer_mask(self, k),
                               in_w1(self), in_w2(self))]

\* render_pixel from the colour math on: post_math is the colour after the math
render_result(self, main, math, sub, operand, post_math) ==
    IF main.tag = "Panic" \/ sub.tag = "Panic"
    THEN [ret |-> [tag |-> "Panic", rgb |-> Black], ppu |-> self,
          call |-> [blanked |-> FALSE, events |-> render_events(self, sub),
                    checks |-> mask_checks(self), main |-> main, sub |-> sub, math |-> math,
                    operand |-> Black, post_math |-> Black, final |-> Black]]
    ELSE [ret |-> [tag |-> "Rgb", rgb |-> to_adjusted_rgb(final_color(self, post_math))],
          ppu |-> self,
          call |-> [blanked |-> FALSE, events |-> render_events(self, sub),
                    checks |-> mask_checks(self), main |-> main, sub |-> sub, math |-> math,
                    operand |-> IF math THEN operand ELSE Black,
                    post_math |-> post_math, final |-> final_color(self, post_math)]]

\* render_pixel once the operand of the colour math is known
render_operand(self, main, math, sub, operand) ==
    render_result(self, main, math, sub, operand,
                  IF math THEN apply_math(self, main.color, operand) ELSE main.color)

\* render_pixel once the subscreen pixel is known (NotRun when it was not fetched)
render_sub(self, main, math, sub) ==
    render_operand(self, main, math, sub, math_color(self, sub))

\* render_pixel once it is known whether colour math applies to the main pixel
render_math(self, main, math) ==
    render_sub(self, main, math,
               IF math /\ BitSet(self.cgwsel, 1) THEN get_raw_pixel(self, TRUE) ELSE NotRun)

\* render_pixel once the main screen's pixel is known
render_main(self, main) ==
    render_math(self, main, main.tag = "Ok" /\ color_math_enabled(self, main.layer))

\* render_pixel after the frame and line start; self is the Ppu after them
render_line(self) == render_main(self, get_raw_pixel(self, FALSE))

\* render_pixel past the forced-blank test: [ret, ppu, call] = the return value (or the
\* panic), self afterwards, and what the call did
render_visible(self) == render_line(prepare_line(self))

\* a render_pixel that does not return early on forced blank
render_pixel_never_blank(self) ==
    IF ~(self.x < SCREEN_WIDTH) \/ ~(self.scanline < SCREEN_HEIGHT)
    THEN [ret |-> [tag |-> "Panic", rgb |-> Black], ppu |-> self, call |-> NoCall]
    ELSE render_visible(self)

\* render_pixel: the assertions, the forced-blank early return, then the pipeline
render_pixel(self) ==
    IF ~(self.x < SCREEN_WIDTH) \/ ~(self.scanline < SCREEN_HEIGHT)
    THEN [ret |-> [tag |-> "Panic", rgb |-> Black], ppu |-> self, call |-> NoCall]
    ELSE IF forced_blank(self)
    THEN [ret |-> [tag |-> "Rgb", rgb |-> <<0, 0, 0>>], ppu |-> self,
          call |-> [NoCall EXCEPT !.blanked = TRUE]]
    ELSE render_visible(self)

(***************************************************************************)
(* src/src/breeze_core/rom.rs.  A byte slice &[u8] is a window             *)
(* [image, start, len] into a file image; ImageByte gives the image's      *)
(* bytes.                                                                  *)
(***************************************************************************)
\* the 64-byte SNES header an image carries: title "AAA...", makeup byte, chipset,
\* ROM and RAM size nibbles, vendor, version, checksum complement and checksum
HeaderByte(image, k) ==
    CASE k \in 0..20 -> IF image.title_ok THEN 65 ELSE 7
      [] k = 21 -> image.makeup
      [] k = 23 -> image.rom_size
      [] k = 24 -> 1
      [] k = 28 -> 203 [] k = 29 -> 237
      [] k = 30 -> IF image.sum_ok THEN 52 ELSE 53
      [] k = 31 -> 18
      [] OTHER -> 0

\* byte i of a file image: an optional 512-byte SMC header of 0xAA bytes, then the ROM,
\* whose byte j is the header byte where the image has a SNES header and a byte derived
\* from j elsewhere
ImageByte(image, i) ==
    LET j == i - (IF image.smc THEN 512 ELSE 0)
    IN  IF j < 0 THEN 170
        ELSE IF j \in image.header_at..(image.header_at + 63)
        THEN HeaderByte(image, j - image.header_at)
        ELSE (j * 7 + 3) % 256

\* bytes[i]
ByteAt(bytes, i) == ImageByte(bytes.image, bytes.start + i)

\* &bytes[from..]
SliceFrom(bytes, from) == [image |-> bytes.image, start |-> bytes.start + from, len |-> bytes.len - from]

LoRom == "LoRom"

HiRom == "HiRom"

\* RomHeader::load(&bytes[at .. at + 64], rom_type): the decoded header and the score
RomHeader_load(bytes, at, rom_type) ==
    LET b(k)         == ByteAt(bytes, at + k)
        check_inv    == b(29) * 256 + b(28)
        rom_checksum == b(31) * 256 + b(30)
        s1 == IF check_inv # 65535 - rom_checksum THEN -4 ELSE 0
        s2 == IF \E k \in 0..20 : b(k) \notin 32..126 THEN -2 ELSE 0
        nibble == b(21) % 16
        header_rom_type == CASE nibble = 0 -> LoRom [] nibble = 1 -> HiRom [] OTHER -> LoRom
        s3 == IF nibble \notin {0, 1} THEN -10 ELSE 0
        s4 == IF header_rom_type = rom_type THEN 0 ELSE -3
    IN  [header |-> [title    |-> [k \in 0..20 |-> IF b(k) \in 32..126 THEN b(k) ELSE 32],
                     rom_size |-> 1024 * 2 ^ (b(23) % 16),
                     ram_size |-> 1024 * 2 ^ (b(24) % 16),
                     checksum |-> rom_checksum,
                     rom_type |-> rom_type],
         score  |-> s1 + s2 + s3 + s4]

NoHeader == [title |-> << >>, rom_size |-> 0, ram_size |-> 0, checksum |-> 0, rom_type |-> LoRom]

\* no Rom was constructed
NoRom == [header |-> NoHeader, ram_len |-> 0, rom_len |-> 0, rom |-> [image |-> "none", start |-> 0, len |-> 0]]

\* a from_bytes that keeps the SMC header
strip_smc_header_kept(bytes) ==
    CASE bytes.len % 1024 = 512 -> [tag |-> "Ok", bytes |-> bytes]
      [] bytes.len % 1024 = 0   -> [tag |-> "Ok", bytes |-> bytes]
      [] OTHER                  -> [tag |-> "Err", bytes |-> bytes]

\* the match on bytes.len() % 1024 of from_bytes
strip_smc_header(bytes) ==
    CASE bytes.len % 1024 = 512 -> [tag |-> "Ok", bytes |-> SliceFrom(bytes, 512)]
      [] bytes.len % 1024 = 0   -> [tag |-> "Ok", bytes |-> bytes]
      [] OTHER                  -> [tag |-> "Err", bytes |-> bytes]

\* from_bytes after the match: header detection and the Rom.  Slicing past the end of
\* bytes panics.  rom is bytes repeated cyclically to rom_len bytes.  The checksum
\* loop only feeds a log line.
detect_header(bytes) ==
    IF bytes.len < 32768 \/ bytes.len < 65536
    THEN [tag |-> "Panic", bytes |-> bytes, rom |-> NoRom]
    ELSE LET lo == RomHeader_load(bytes, 32767 - 63, LoRom)
             hi == RomHeader_load(bytes, 65535 - 63, HiRom)
             header == IF lo.score > hi.score THEN lo.header ELSE hi.header
         IN  [tag |-> "Ok", bytes |-> bytes,
              rom |-> [header  |-> header,
                       ram_len |-> header.ram_size,
                       rom_len |-> Max(header.rom_size, bytes.len),
                       rom     |-> bytes]]

\* Rom::from_bytes: Result<Rom, ()>, or the panic
from_bytes(bytes) ==
    LET m == strip_smc_header(bytes)
    IN  IF m.tag = "Err" THEN [tag |-> "Err", bytes |-> m.bytes, rom |-> NoRom]
        ELSE detect_header(m.bytes)

\* byte i of the rom vector of a Rom
rom_byte(rom, i) == ByteAt(rom.rom, i % rom.rom.len)

(***************************************************************************)
(* Scenes: the register file and memories a game has set up.               *)
(***************************************************************************)
\* the bytes of an 8x8 tile at byte address base whose pixels have palette index idx
\* where the row pattern has a 1 bit (bit 7 = x 0)
TileBytes(base, idx, pattern) ==
    [a \in {base + 16 * (p \div 2) + 2 * y + (p % 2) :
                p \in {q \in 0..7 : BitSet(idx, q)}, y \in 0..7} |-> pattern]

\* the two bytes of the tilemap entry at a word address: vhopppcc cccccccc
EntryBytes(word, vflip, hflip, prio, pal, tile) ==
    (2 * word :> tile % 256)
    @@ (2 * word + 1 :> vflip * 128 + hflip * 64 + prio * 32 + pal * 4 + tile \div 256)

\* BG n of a scene: tilemap at word (15 + n) * 1024, characters at byte (n - 1) * 8192,
\* tile 0 solid with palette index BgIndex[n]
BgIndex == <<1, 2, 3, 1>>

BgTilemapWord(n) == (15 + n) * 1024

BgChrByte(n) == (n - 1) * 8192

\* the sprite tile of a scene: tile 4 (byte 128 of name base 0), solid palette index 1
SpriteTile == 4

\* VRAM of a scene: the tilemap entry under the top-left pixels of BG n has priority
\* prios[n] and palette pals[n]
SceneVram(prios, pals, pattern) ==
    TileBytes(BgChrByte(1), BgIndex[1], pattern) @@ EntryBytes(BgTilemapWord(1), 0, 0, prios[1], pals[1], 0)
    @@ TileBytes(BgChrByte(2), BgIndex[2], pattern) @@ EntryBytes(BgTilemapWord(2), 0, 0, prios[2], pals[2], 0)
    @@ TileBytes(BgChrByte(3), BgIndex[3], pattern) @@ EntryBytes(BgTilemapWord(3), 0, 0, prios[3], pals[3], 0)
    @@ TileBytes(BgChrByte(4), BgIndex[4], pattern) @@ EntryBytes(BgTilemapWord(4), 0, 0, prios[4], pals[4], 0)
    @@ TileBytes(SpriteTile * 32, 1, pattern)

\* CGRAM of a scene: a distinct colour for the backdrop, each BG and the sprites
SceneCgram ==
    (0 :> <<1, 2, 3>>)
    @@ (1 :> <<31, 0, 0>>) @@ (2 :> <<0, 31, 0>>) @@ (3 :> <<0, 0, 31>>)
    @@ (34 :> <<0, 31, 0>>) @@ (67 :> <<0, 0, 31>>) @@ (97 :> <<20, 10, 0>>)
    @@ (129 :> <<31, 0, 31>>) @@ (177 :> <<9, 9, 9>>) @@ (193 :> <<0, 31, 31>>)

\* one 8x8 sprite with its top-left corner at (x, y)
SpriteAt(x, y, prio, pal) ==
    [x |-> x, y |-> y, tile_number |-> SpriteTile, palette |-> pal, priority |-> prio,
     size_toggle |-> FALSE, hflip |-> FALSE, vflip |-> FALSE]

\* one 8x8 sprite at the top-left corner of the screen
Sprite(prio, pal) == SpriteAt(0, 0, prio, pal)

AllZero == [n \in 1..4 |-> 0]

\* the VRAM of every scene with palette 0 tiles, by the priorities of its four entries
SceneVrams == [prios \in [1..4 -> {0, 1}] |-> SceneVram(prios, AllZero, 255)]

\* a scene: full brightness, the BG and sprite layout above, everything else 0
Scene(prios, oam) ==
    [bgmode |-> 0, tm |-> 0, ts |-> 0, tmw |-> 0, tsw |-> 0,
     w12sel |-> 0, w34sel |-> 0, wobjsel |-> 0, wbglog |-> 0, wobjlog |-> 0,
     wh0 |-> 0, wh1 |-> 0, wh2 |-> 0, wh3 |-> 0,
     cgwsel |-> 0, cgadsub |-> 0, coldata_r |-> 0, coldata_g |-> 0, coldata_b |-> 0,
     setini |-> 0, obsel |-> 0, inidisp |-> 15, mosaic |-> 0,
     bg1sc |-> 64, bg2sc |-> 68, bg3sc |-> 72, bg4sc |-> 76,
     bg12nba |-> 16, bg34nba |-> 50,
     bg1hofs |-> 0, bg2hofs |-> 0, bg3hofs |-> 0, bg4hofs |-> 0,
     bg1vofs |-> 0, bg2vofs |-> 0, bg3vofs |-> 0, bg4vofs |-> 0,
     x |-> 0, scanline |-> 0,
     vram |-> SceneVrams[prios], cgram |-> SceneCgram,
     oam |-> oam, sprites |-> << >>, range_over |-> FALSE, time_over |-> FALSE]

Builds == {"debug", "release"}

NoRet == [tag |-> "None", rgb |-> Black]

\* nothing has been rendered yet
Fresh == pc = "idle" /\ ret = NoRet /\ call = NoCall

(***************************************************************************)
(* Actions.                                                                *)
(***************************************************************************)
\* one call of render_pixel for the current pixel
RenderPixel ==
    /\ pc = "idle"
    /\ LET r == render_pixel(ppu)
       IN  ppu' = r.ppu /\ ret' = r.ret /\ call' = r.call
    /\ pc' = "rendered"
    /\ UNCHANGED build

(***************************************************************************)
(* Layer dispatch: every mode, every set of enabled layers, every          *)
(* combination of tile priorities, a sprite of every priority.             *)
(***************************************************************************)
\* bgmode values: modes 0..7, and mode 1 with the BG3 priority bit
DispatchModes == (0..7) \cup {9}

DispatchOam == {<< >>} \cup {<< Sprite(p, 4) >> : p \in 0..3}

InitDispatch ==
    /\ \E mode \in DispatchModes, tm \in 0..31, prios \in [1..4 -> {0, 1}], oam \in DispatchOam :
         \E setini \in (IF mode % 8 = 7 THEN {0, 64} ELSE {0}) :
            ppu = [Scene(prios, oam) EXCEPT !.bgmode = mode, !.tm = tm, !.setini = setini]
    /\ build \in Builds
    /\ Fresh

NextRender == RenderPixel

SpecDispatch == InitDispatch /\ [][NextRender]_vars

(***************************************************************************)
(* Starting in the middle of a line: the pixels before x have been         *)
(* rendered, so the sprite line cache holds this line's pre-scan.          *)
(***************************************************************************)
\* the modelled part of a line: pixels 0 .. MaxX - 1
MaxX == 4

AtPixel(s, x) ==
    IF x = 0 THEN s ELSE collect_sprite_data_for_scanline([s EXCEPT !.x = x])

(***************************************************************************)
(* Windows: every 4-bit window selection and every combinator in each of   *)
(* the six masks, windows that are empty, reversed, nested and             *)
(* overlapping, every pixel of the modelled line.                          *)
(***************************************************************************)
\* the selection nibble paired with n in the other half of a w??sel register
Paired(n) == (n * 7 + 3) % 16

InitWindow ==
    /\ \E n \in 0..15, op \in 0..3, wh0 \in {0, 1, 2}, wh1 \in {0, 1, 2, 3},
          wh2 \in {0, 2}, wh3 \in {1, 3}, x \in 0..(MaxX - 1) :
         ppu = AtPixel([Scene(AllZero, << >>) EXCEPT
                         !.tm = 1, !.tmw = 1,
                         !.w12sel = n + 16 * Paired(n),
                         !.w34sel = Paired(n) + 16 * n,
                         !.wobjsel = n + 16 * Paired(n),
                         !.wbglog = op + 4 * ((op + 1) % 4) + 16 * ((op + 2) % 4) + 64 * ((op + 3) % 4),
                         !.wobjlog = op + 4 * ((op + 1) % 4),
                         !.wh0 = wh0, !.wh1 = wh1, !.wh2 = wh2, !.wh3 = wh3], x)
    /\ build \in Builds
    /\ Fresh

SpecWindow == InitWindow /\ [][NextRender]_vars

(***************************************************************************)
(* Window masking of layers: every layer enabled on both screens, masking  *)
(* enabled per layer in tmw / tsw, windows that cover some of the pixels.  *)
(***************************************************************************)
MaskEnables == {0, 1, 2, 4, 8, 16, 31}

InitMask ==
    /\ \E prios \in {AllZero, [n \in 1..4 |-> 1]},
          oam \in {<< >>, << Sprite(3, 4) >>, << Sprite(0, 4) >>},
          tmw \in MaskEnables, tsw \in {0, 17, 31},
          w12sel \in {0, 50, 163}, w34sel \in {35, 10}, wobjsel \in {2, 3},
          cgadsub \in {0, 63}, ts \in {31, 16}, x \in 0..(MaxX - 1) :
         ppu = AtPixel([Scene(prios, oam) EXCEPT
                         !.tm = 31, !.ts = ts, !.tmw = tmw, !.tsw = tsw,
                         !.w12sel = w12sel, !.w34sel = w34sel, !.wobjsel = wobjsel,
                         !.wh0 = 1, !.wh1 = 3, !.wh2 = 0, !.wh3 = 2,
                         !.cgwsel = 2, !.cgadsub = cgadsub], x)
    /\ build \in Builds
    /\ Fresh

SpecMask == InitMask /\ [][NextRender]_vars

(***************************************************************************)
(* Colour math: a main pixel from every layer (sprites of palette 3 and 4),*)
(* every cgadsub enable bit, add and subtract, every cgwsel math rule,     *)
(* fixed colour and subscreen, a colour window that covers pixel 1 only.   *)
(***************************************************************************)
\* the main screen shows one layer, or the backdrop
MathMain ==
    {[tm |-> 0, oam |-> << >>], [tm |-> 1, oam |-> << >>], [tm |-> 2, oam |-> << >>],
     [tm |-> 4, oam |-> << >>], [tm |-> 8, oam |-> << >>],
     [tm |-> 16, oam |-> << Sprite(2, 3) >>], [tm |-> 16, oam |-> << Sprite(2, 4) >>]}

MathEnables == {0, 1, 2, 4, 8, 16, 32, 63}

FixedColors == {<<8, 8, 8>>, <<31, 16, 1>>}

InitMath ==
    /\ \E m \in MathMain, en \in MathEnables, subtract \in {0, 128}, rule \in 0..3,
          source \in {0, 2}, ts \in {0, 2, 16}, wobjsel \in {0, 32, 48},
          fixed \in FixedColors, x \in {0, 1} :
         ppu = AtPixel([Scene(AllZero, m.oam) EXCEPT
                         !.tm = m.tm, !.ts = ts,
                         !.cgadsub = en + subtract, !.cgwsel = rule * 16 + source,
                         !.wobjsel = wobjsel, !.wh0 = 1, !.wh1 = 3,
                         !.coldata_r = fixed[1], !.coldata_g = fixed[2], !.coldata_b = fixed[3]], x)
    /\ build \in Builds
    /\ Fresh

SpecMath == InitMath /\ [][NextRender]_vars

(***************************************************************************)
(* Colour clipping and half-math: a main pixel from every layer, every     *)
(* cgwsel clip rule, the half bit of cgadsub set and clear, add and        *)
(* subtract, a colour window that covers pixel 1 only.                     *)
(***************************************************************************)
InitClip ==
    /\ \E m \in MathMain, en \in {0, 63}, subtract \in {0, 128}, half \in {0, 64},
          clip \in 0..3, wobjsel \in {0, 32, 48}, x \in {0, 1} :
         ppu = AtPixel([Scene(AllZero, m.oam) EXCEPT
                         !.tm = m.tm,
                         !.cgadsub = en + half + subtract, !.cgwsel = clip * 64,
                         !.wobjsel = wobjsel, !.wh0 = 1, !.wh1 = 3,
                         !.coldata_r = 8, !.coldata_g = 9, !.coldata_b = 31], x)
    /\ build \in Builds
    /\ Fresh

SpecClip == InitClip /\ [][NextRender]_vars

(***************************************************************************)
(* Brightness: every master brightness, a main pixel from every layer,     *)
(* with and without colour math.                                           *)
(***************************************************************************)
InitBright ==
    /\ \E m \in MathMain, b \in 0..15, en \in {0, 63}, subtract \in {0, 128},
          fixed \in FixedColors :
         ppu = [Scene(AllZero, m.oam) EXCEPT
                  !.tm = m.tm, !.inidisp = b, !.cgadsub = en + subtract,
                  !.coldata_r = fixed[1], !.coldata_g = fixed[2], !.coldata_b = fixed[3]]
    /\ build \in Builds
    /\ Fresh

SpecBright == InitBright /\ [][NextRender]_vars

(***************************************************************************)
(* No layer designated for the main screen: the five layer bits of tm      *)
(* clear, in several BG modes, with every other part of the pipeline       *)
(* switched on and off.                                                    *)
(***************************************************************************)
InitBackdrop ==
    /\ \E tm \in {0, 224}, mode \in {0, 1, 5, 7}, cgadsub \in {0, 31, 32, 63}, rule \in 0..3,
          source \in {0, 2}, ts \in {0, 31}, b \in {15, 7}, tmw \in {0, 31},
          wobjsel \in {0, 32}, x \in {0, 1} :
         ppu = AtPixel([Scene(AllZero, << Sprite(3, 4) >>) EXCEPT
                         !.bgmode = mode, !.tm = tm, !.ts = ts, !.tmw = tmw, !.tsw = tmw,
                         !.w12sel = 34, !.w34sel = 34,
                         !.cgadsub = cgadsub, !.cgwsel = rule * 16 + source,
                         !.wobjsel = wobjsel + 2, !.wh0 = 1, !.wh1 = 3,
                         !.inidisp = b,
                         !.coldata_r = 8, !.coldata_g = 8, !.coldata_b = 8], x)
    /\ build \in Builds
    /\ Fresh

SpecBackdrop == InitBackdrop /\ [][NextRender]_vars

(***************************************************************************)
(* Transparency: tiles whose rows have transparent pixels (palette index   *)
(* 0) at different x in each layer, every palette number, a CGRAM whose    *)
(* palette base entries all hold one colour that no other entry holds.     *)
(***************************************************************************)
\* the row pattern of the tile of BG 1..4 and of the sprite (5): bit 7 = x 0
RowPattern == <<160, 192, 128, 0, 144>>

\* the colour of every palette's entry 0 but CGRAM[0]
Entry0Colour == <<30, 30, 30>>

TransparencyCgram ==
    [i \in 0..255 |-> IF i = 0 THEN <<1, 2, 3>>
                      ELSE IF i % 4 = 0 THEN Entry0Colour
                      ELSE <<i % 32, (i \div 8) % 32, 5>>]

TransparencyVram(pals) ==
    TileBytes(BgChrByte(1), BgIndex[1], RowPattern[1]) @@ EntryBytes(BgTilemapWord(1), 0, 0, 0, pals[1], 0)
    @@ TileBytes(BgChrByte(2), BgIndex[2], RowPattern[2]) @@ EntryBytes(BgTilemapWord(2), 0, 0, 0, pals[2], 0)
    @@ TileBytes(BgChrByte(3), BgIndex[3], RowPattern[3]) @@ EntryBytes(BgTilemapWord(3), 0, 0, 0, pals[3], 0)
    @@ TileBytes(BgChrByte(4), BgIndex[4], RowPattern[4]) @@ EntryBytes(BgTilemapWord(4), 0, 0, 0, pals[4], 0)
    @@ TileBytes(SpriteTile * 32, 1, RowPattern[5])

InitTransparent ==
    /\ \E mode \in {0, 1}, tm \in {1, 2, 3, 16, 17, 19, 31},
          pals \in {AllZero, [n \in 1..4 |-> 3], [n \in 1..4 |-> 7]},
          spal \in {0, 5}, x \in 0..(MaxX - 1) :
         ppu = AtPixel([Scene(AllZero, << Sprite(2, spal) >>) EXCEPT
                         !.bgmode = mode, !.tm = tm,
                         !.vram = TransparencyVram(pals), !.cgram = TransparencyCgram], x)
    /\ build \in Builds
    /\ Fresh

SpecTransparent == InitTransparent /\ [][NextRender]_vars

(***************************************************************************)
(* Character data: 8x8 tiles of 2, 4 and 8 bitplanes written into VRAM in  *)
(* the interleaved format, and read_chr_entry applied to each pixel.       *)
(***************************************************************************)
Coords == (0..7) \X (0..7)

\* tiles of bpp bitplanes: gradients, one pixel holding a single plane's bit, one
\* pixel holding every bit, and all pixels full but one
ChrTiles(bpp) ==
    {[c \in Coords |-> (a * c[1] + b * c[2] + k) % 2 ^ bpp] :
        a \in {0, 1, 37}, b \in {0, 1, 5}, k \in {0, 2 ^ bpp - 1}}
    \cup {[c \in Coords |-> IF c = at THEN v ELSE 0] :
            at \in {<<0, 0>>, <<7, 0>>, <<3, 5>>, <<7, 7>>},
            v \in {2 ^ q : q \in 0..(bpp - 1)} \cup {2 ^ bpp - 1}}
    \cup {[c \in Coords |-> IF c = at THEN 0 ELSE 2 ^ bpp - 1] : at \in {<<0, 7>>, <<6, 2>>}}

\* byte addresses a tile is written at; the last one ends at the last byte of VRAM
ChrStarts(bpp) == {0, 8192, 65536 - 8 * bpp}

\* the byte of plane p of row y: bit 7 is x 0
PlaneByte(tile, p, y) ==
    LET RECURSIVE bits(_)
        bits(x) == IF x = 8 THEN 0
                   ELSE ((tile[<<x, y>>] \div 2 ^ p) % 2) * 2 ^ (7 - x) + bits(x + 1)
    IN  bits(0)

\* VRAM holding the tile at start: bitplane pair i at start + 16 * i, row y at + 2 * y,
\* even byte the lower plane of the pair, odd byte the higher plane
ChrVram(tile, bpp, start) ==
    [a \in start..(start + 8 * bpp - 1) |->
        LET off == a - start
        IN  PlaneByte(tile, 2 * (off \div 16) + (off % 2), (off % 16) \div 2)]

InitChr ==
    /\ \E bpp \in {2, 4, 8} : \E tile \in ChrTiles(bpp), start \in ChrStarts(bpp) :
         /\ ppu = [Scene(AllZero, << >>) EXCEPT !.vram = ChrVram(tile, bpp, start)]
         /\ call = [bitplane_count |-> bpp, start_addr |-> start, tile |-> tile, x |-> 0, y |-> 0]
    /\ build \in Builds
    /\ pc = "idle"
    /\ ret = NoRet

\* read_chr_entry(bitplane_count, start_addr, 8, (x, y), (false, false))
ReadChrEntry ==
    /\ pc = "idle"
    /\ \E c \in Coords :
         /\ call' = [call EXCEPT !.x = c[1], !.y = c[2]]
         /\ ret' = [tag |-> "Index",
                    index |-> read_chr_entry(ppu, call.bitplane_count, call.start_addr, 8,
                                             c[1], c[2], FALSE, FALSE)]
    /\ pc' = "read"
    /\ UNCHANGED <<ppu, build>>

NextChr == ReadChrEntry

SpecChr == InitChr /\ [][NextChr]_vars

(***************************************************************************)
(* Tilemap addressing: every mirror setting, tilemap bases with and        *)
(* without the lowest base bit, scroll offsets that reach the second       *)
(* 32-tile screen in each axis, 8x8 and 16x16 tiles.                       *)
(***************************************************************************)
TilemapBases == {0, 1, 2, 21, 63}

TilemapScrolls == {0, 8, 248, 256, 264, 512, 520, 1016}

InitTilemap ==
    /\ \E base \in TilemapBases, mirror \in 0..3, large \in {0, 240},
          hofs \in TilemapScrolls, vofs \in TilemapScrolls, x \in {0, 7} :
         ppu = [Scene(AllZero, << >>) EXCEPT
                  !.bgmode = large, !.x = x,
                  !.bg1sc = base * 4 + mirror, !.bg2sc = base * 4 + mirror,
                  !.bg3sc = base * 4 + mirror, !.bg4sc = base * 4 + mirror,
                  !.bg1hofs = hofs, !.bg2hofs = hofs, !.bg3hofs = hofs, !.bg4hofs = hofs,
                  !.bg1vofs = vofs, !.bg2vofs = vofs, !.bg3vofs = vofs, !.bg4vofs = vofs]
    /\ build \in Builds
    /\ Fresh

\* lookup_bg_color(bg_num, _) up to the tilemap entry's address (bg.rs 213-230)
TilemapEntryAddress ==
    /\ pc = "idle"
    /\ \E bg_num \in 1..4 :
         LET bg     == bg_settings(ppu, bg_num)
             tile_x == Wrap16(ppu.x + bg.hscroll) \div bg.tile_size
             tile_y == Wrap16(ppu.scanline + bg.vscroll) \div bg.tile_size
         IN  call' = [bg_num |-> bg_num, tile_x |-> tile_x, tile_y |-> tile_y,
                      tilemap_entry_word_address |-> tilemap_entry_word_address(bg, tile_x, tile_y)]
    /\ pc' = "addressed"
    /\ UNCHANGED <<ppu, build, ret>>

NextTilemap == TilemapEntryAddress

SpecTilemap == InitTilemap /\ [][NextTilemap]_vars

(***************************************************************************)
(* Addresses: BG1 alone with every kind of character base, tile numbers up *)
(* to 1023, palettes 0 and 7, tilemaps in the low and the high half of the *)
(* word address space, colour depths 2, 4 and 8.                           *)
(***************************************************************************)
\* bitplanes of BG1 in BG modes 0, 1 and 3
Bg1Bitplanes(mode) == CASE mode = 0 -> 2 [] mode = 1 -> 4 [] mode = 3 -> 8

\* VRAM with the tilemap entry of BG1's top-left tile and the tile it names, solid with
\* palette index idx, where the code reads them
AddressVram(mode, base, chr, tile, pal, idx) ==
    EntryBytes((base * 1024) % 32768, 0, 0, 0, pal, tile)
    @@ TileBytes((chr * 8192 + tile * 8 * Bg1Bitplanes(mode)) % 65536, idx, 255)

AddressCgram == [i \in 0..255 |-> <<i % 32, (i \div 32) % 32, 7>>]

InitAddress ==
    /\ \E mode \in {0, 1, 3}, base \in {1, 16, 33, 63}, chr \in {0, 1, 3, 6, 7, 9},
          tile \in {0, 1, 511, 1023}, pal \in {0, 7}, x \in {0, 1} :
         ppu = AtPixel([Scene(AllZero, << >>) EXCEPT
                         !.bgmode = mode, !.tm = 1, !.bg1sc = base * 4, !.bg12nba = chr,
                         !.vram = AddressVram(mode, base, chr, tile, pal, 3),
                         !.cgram = AddressCgram], x)
    /\ build \in Builds
    /\ Fresh

SpecAddress == InitAddress /\ [][NextRender]_vars

(***************************************************************************)
(* ROM loading: file lengths around every multiple of 512 up to 128 KiB    *)
(* and a half, images with and without an SMC header, with a LoROM or a    *)
(* HiROM header, good or damaged.                                          *)
(***************************************************************************)
RomLengths ==
    {0, 1, 511, 512, 513, 1023, 1024, 1536, 32768, 33280, 65535, 65536, 65537,
     66047, 66048, 66049, 66560, 131072, 131584, 131585}

RomImages ==
    [smc : BOOLEAN, header_at : {32704, 65472}, makeup : {32, 33, 53},
     rom_size : {6, 7, 12}, title_ok : BOOLEAN, sum_ok : BOOLEAN]

InitRom ==
    /\ \E len \in RomLengths, image \in RomImages :
         call = [bytes |-> [image |-> image, start |-> 0, len |-> len]]
    /\ ppu = Scene(AllZero, << >>)
    /\ build \in Builds
    /\ pc = "idle"
    /\ ret = NoRet

\* process_args (main.rs 97-102): Rom::from_bytes(&buf)
LoadRom ==
    /\ pc = "idle"
    /\ ret' = from_bytes(call.bytes)
    /\ pc' = "loaded"
    /\ UNCHANGED <<ppu, build, call>>

NextRom == LoadRom

SpecRom == InitRom /\ [][NextRom]_vars

(***************************************************************************)
(* Flipped tiles: BG1 alone, a tile without any symmetry, tilemap entries  *)
(* with every combination of the flip flags.                               *)
(***************************************************************************)
\* a tile whose pixel values 1..3 differ under each flip
FlipTile == [c \in Coords |-> 1 + ((c[1] + 2 * c[2]) % 3)]

FlipVram(mode, vflip, hflip) ==
    EntryBytes(BgTilemapWord(1), vflip, hflip, 0, 0, 0)
    @@ ChrVram(FlipTile, Bg1Bitplanes(mode), BgChrByte(1))

InitFlip ==
    /\ \E mode \in {0, 1}, vflip \in {0, 1}, hflip \in {0, 1},
          x \in 0..(MaxX - 1), y \in {0, 1} :
         ppu = AtPixel([Scene(AllZero, << >>) EXCEPT
                         !.bgmode = mode, !.tm = 1, !.scanline = y,
                         !.vram = FlipVram(mode, vflip, hflip),
                         !.cgram = AddressCgram], x)
    /\ build \in Builds
    /\ Fresh

SpecFlip == InitFlip /\ [][NextRender]_vars

(***************************************************************************)
(* Palettes: each BG of each of the modes 0 to 6 alone on the main screen, *)
(* every palette number, tiles of several palette indices.                 *)
(***************************************************************************)
\* the BGs that the try_layer! lists of a mode name
ModeBgs(mode) == CASE mode = 0 -> 1..4 [] mode = 1 -> 1..3 [] mode \in 2..5 -> 1..2 [] mode = 6 -> {1}

\* VRAM with the top-left tilemap entry of BG bg naming palette pal and tile 0, solid
\* with the bits of idx in its bitplanes
PaletteVram(bg, pal, idx) ==
    EntryBytes(BgTilemapWord(bg), 0, 0, 0, pal, 0) @@ TileBytes(BgChrByte(bg), idx, 255)

InitPalette ==
    /\ \E mode \in 0..6, pal \in 0..7, idx \in {1, 3, 13, 255}, x \in {0, 1} :
         \E bg \in ModeBgs(mode) :
            ppu = AtPixel([Scene(AllZero, << >>) EXCEPT
                            !.bgmode = mode, !.tm = 2 ^ (bg - 1),
                            !.vram = PaletteVram(bg, pal, idx),
                            !.cgram = AddressCgram], x)
    /\ build \in Builds
    /\ Fresh

SpecPalette == InitPalette /\ [][NextRender]_vars

(***************************************************************************)
(* Large tiles: BG1 alone with 8x8 and with 16x16 tiles, the four 8x8      *)
(* tiles 0, 1, 16, 17 solid with different palette indices, scroll offsets *)
(* that bring each quarter of the 16x16 tile under the pixel.              *)
(***************************************************************************)
\* bgmode values: mode 0 with 8x8 tiles, mode 0 with 16x16 tiles for BG1, mode 5
LargeTileModes == {0, 16, 5}

\* palette index of the 8x8 tiles 0, 1, 16, 17
QuarterIndex(t) == CASE t = 0 -> 1 [] t = 1 -> 2 [] t = 16 -> 3 [] t = 17 -> 2

LargeTileVram(bpp) ==
    EntryBytes(BgTilemapWord(1), 0, 0, 0, 0, 0)
    @@ TileBytes(0, QuarterIndex(0), 255)
    @@ TileBytes(8 * bpp, QuarterIndex(1), 255)
    @@ TileBytes(16 * 8 * bpp, QuarterIndex(16), 255)
    @@ TileBytes(17 * 8 * bpp, QuarterIndex(17), 255)

InitLargeTile ==
    /\ \E bgmode \in LargeTileModes, hofs \in {0, 8, 16}, vofs \in {0, 8},
          x \in 0..(MaxX - 1) :
         ppu = AtPixel([Scene(AllZero, << >>) EXCEPT
                         !.bgmode = bgmode, !.tm = 1, !.bg1hofs = hofs, !.bg1vofs = vofs,
                         !.vram = LargeTileVram(IF bgmode = 5 THEN 4 ELSE 2),
                         !.cgram = AddressCgram], x)
    /\ build \in Builds
    /\ Fresh

SpecLargeTile == InitLargeTile /\ [][NextRender]_vars

(***************************************************************************)
(* The scan: render_pixel is called for each pixel in scan order, the      *)
(* caller moves the beam, and the CPU writes registers between pixels.     *)
(***************************************************************************)
\* the modelled part of a frame: lines 0 .. MaxLine - 1
MaxLine == 2

\* the caller takes the pixel and moves to the next pixel, the next line, the next frame
AdvanceBeam ==
    /\ pc = "rendered"
    /\ ret.tag # "Panic"
    /\ ppu' = IF ppu.x + 1 < MaxX THEN [ppu EXCEPT !.x = ppu.x + 1]
              ELSE [ppu EXCEPT !.x = 0, !.scanline = (ppu.scanline + 1) % MaxLine]
    /\ pc' = "idle"
    /\ ret' = NoRet
    /\ call' = NoCall
    /\ UNCHANGED build

\* register writes of the CPU between two pixels
RegWrites ==
    {<<"inidisp", v>> : v \in {15, 143, 7, 0, 128}}
    \cup {<<"tm", v>> : v \in {0, 17, 31}}
    \cup {<<"cgadsub", v>> : v \in {0, 63}}

CpuWrite ==
    /\ pc = "idle"
    /\ \E w \in RegWrites : ppu' = [ppu EXCEPT ![w[1]] = w[2]]
    /\ UNCHANGED <<build, pc, ret, call>>

\* BG modes 0, 1 and 7; the sprite is on line 1 only; the overflow flags are clear or
\* left set by the frame before
Init ==
    /\ \E mode \in {0, 1, 7}, prios \in {AllZero, [n \in 1..4 |-> 1]}, inidisp \in {15, 143},
          over \in BOOLEAN :
         ppu = [Scene(prios, << SpriteAt(0, 1, 2, 4) >>) EXCEPT
                  !.bgmode = mode, !.tm = 17, !.inidisp = inidisp,
                  !.range_over = over, !.time_over = over,
                  !.coldata_r = 8, !.coldata_g = 8, !.coldata_b = 8]
    /\ build \in Builds
    /\ Fresh

Next == RenderPixel \/ AdvanceBeam \/ CpuWrite

Spec == Init /\ [][Next]_vars

(***************************************************************************)
(* Forced blank.                                                           *)
(***************************************************************************)
\* C1: whenever forced_blank is set, render_pixel (called with x and scanline on the
\* screen) returns the RGB value (0, 0, 0), whatever the other registers, VRAM, CGRAM
\* and OAM hold.
C1_ForcedBlankDominates ==
    (pc = "rendered" /\ forced_blank(ppu)) => ret = [tag |-> "Rgb", rgb |-> <<0, 0, 0>>]

\* a forced-blank pixel that would have shown a colour with forced blank off
C1_BlankedVisiblePixel ==
    /\ pc = "rendered"
    /\ forced_blank(ppu)
    /\ call.blanked
    /\ ret.rgb = <<0, 0, 0>>
    /\ render_visible([ppu EXCEPT !.inidisp = 15]).ret.rgb # <<0, 0, 0>>

(***************************************************************************)
(* Layer dispatch.                                                         *)
(***************************************************************************)
\* the (layer, priority) candidates of BG modes 0 to 6 in the documented order
\* ("OBJ" or "BG1".."BG4", priority); bg3_first is bgmode bit 3
DocumentedOrder(mode, bg3_first) ==
    CASE mode = 0 ->
            << <<"OBJ", 3>>, <<"BG1", 1>>, <<"BG2", 1>>, <<"OBJ", 2>>, <<"BG1", 0>>, <<"BG2", 0>>,
               <<"OBJ", 1>>, <<"BG3", 1>>, <<"BG4", 1>>, <<"OBJ", 0>>, <<"BG3", 0>>, <<"BG4", 0>> >>
      [] mode = 1 /\ bg3_first ->
            << <<"BG3", 1>>, <<"OBJ", 3>>, <<"BG1", 1>>, <<"BG2", 1>>, <<"OBJ", 2>>, <<"BG1", 0>>,
               <<"BG2", 0>>, <<"OBJ", 1>>, <<"OBJ", 0>>, <<"BG3", 0>> >>
      [] mode = 1 /\ ~bg3_first ->
            << <<"OBJ", 3>>, <<"BG1", 1>>, <<"BG2", 1>>, <<"OBJ", 2>>, <<"BG1", 0>>, <<"BG2", 0>>,
               <<"OBJ", 1>>, <<"BG3", 1>>, <<"OBJ", 0>>, <<"BG3", 0>> >>
      [] mode \in {2, 3, 4, 5} ->
            << <<"OBJ", 3>>, <<"BG1", 1>>, <<"OBJ", 2>>, <<"BG2", 1>>,
               <<"OBJ", 1>>, <<"BG1", 0>>, <<"OBJ", 0>>, <<"BG2", 0>> >>
      [] mode = 6 ->
            << <<"OBJ", 3>>, <<"BG1", 1>>, <<"OBJ", 2>>, <<"OBJ", 1>>, <<"BG1", 0>>, <<"OBJ", 0>> >>

\* the number of the BG named by a documented candidate
DocBg(d) == CASE d[1] = "BG1" -> 1 [] d[1] = "BG2" -> 2 [] d[1] = "BG3" -> 3 [] d[1] = "BG4" -> 4

\* the documented candidate that a consulted candidate of the code is
DocOf(cand) ==
    IF cand.kind = "Sprites" THEN <<"OBJ", cand.prio>>
    ELSE << CASE cand.bg = 1 -> "BG1" [] cand.bg = 2 -> "BG2" [] cand.bg = 3 -> "BG3"
              [] cand.bg = 4 -> "BG4", cand.prio >>

\* what the layer of a documented candidate yields at the current pixel
DocFound(self, subscreen, d) ==
    IF d[1] = "OBJ" THEN maybe_draw_sprite_pixel(self, d[2], subscreen)
    ELSE lookup_bg_color(self, DocBg(d), d[2])

\* the layer tag a documented candidate returns
DocLayer(d, found) ==
    CASE d[1] = "OBJ" -> [l |-> "Obj", opaque |-> found.opaque]
      [] d[1] = "BG1" -> [l |-> "Bg1", opaque |-> FALSE]
      [] d[1] = "BG2" -> [l |-> "Bg2", opaque |-> FALSE]
      [] d[1] = "BG3" -> [l |-> "Bg3", opaque |-> FALSE]
      [] d[1] = "BG4" -> [l |-> "Bg4", opaque |-> FALSE]

\* a documented candidate hits: its pixel is non-transparent and its layer is not
\* window-masked on this screen
DocHits(self, subscreen, d) ==
    /\ DocFound(self, subscreen, d).tag = "Some"
    /\ ~mask_layer(self, subscreen, IF d[1] = "OBJ" THEN 5 ELSE DocBg(d))

\* a get_raw_pixel call that ended with result r followed the order and rule above
FollowsOrder(self, subscreen, order, r) ==
    LET n == Len(r.consulted)
    IN  /\ n <= Len(order)
        /\ \A i \in 1..n : DocOf(r.consulted[i]) = order[i]
        /\ \A i \in 1..n : (i < n \/ r.layer.l = "Backdrop") => ~DocHits(self, subscreen, order[i])
        /\ \A i \in 1..n : i < n => DocFound(self, subscreen, order[i]).tag # "Panic"
        /\ CASE r.tag = "Panic" -> n > 0 /\ DocFound(self, subscreen, order[n]).tag = "Panic"
             [] r.tag = "Ok" /\ r.layer.l = "Backdrop" ->
                    n = Len(order) /\ r.color = self.cgram[0]
             [] r.tag = "Ok" /\ r.layer.l # "Backdrop" ->
                    /\ n > 0
                    /\ DocHits(self, subscreen, order[n])
                    /\ r.layer = DocLayer(order[n], DocFound(self, subscreen, order[n]))
                    /\ r.color = IF clip_color(self) THEN self.cgram[0]
                                 ELSE DocFound(self, subscreen, order[n]).rgb

\* C2: in BG modes 0 to 6 get_raw_pixel consults the (layer, priority) candidates in
\* exactly the documented per-mode order and returns the colour and the layer tag of
\* the first candidate that is non-transparent and not window-masked; when no candidate
\* hits it returns CGRAM[0] with the tag Backdrop.  A lookup that panics ends the call
\* at that candidate.
C2_DispatchOrder ==
    (pc = "rendered" /\ bg_mode(ppu) \in 0..6) =>
        FollowsOrder(ppu, FALSE, DocumentedOrder(bg_mode(ppu), BitSet(ppu.bgmode, 3)), call.main)

\* mode 0 with the eleventh candidate, BG3 priority 0, the first to hit
C2_LateCandidateWins ==
    /\ pc = "rendered"
    /\ bg_mode(ppu) = 0
    /\ call.main.tag = "Ok"
    /\ call.main.layer = Bg3
    /\ Len(call.main.consulted) = 11
    /\ ret.rgb = <<0, 0, 255>>

\* the candidates of BG mode 7 in the documented order
Mode7Order(extbg) ==
    << <<"OBJ", 3>>, <<"OBJ", 2>> >>
    \o (IF extbg THEN << <<"BG2", 1>> >> ELSE << >>)
    \o << <<"OBJ", 1>>, <<"BG1", 0>>, <<"OBJ", 0>> >>
    \o (IF extbg THEN << <<"BG2", 0>> >> ELSE << >>)

\* the palette index of BG1 at the current pixel when BG1 is a 256-colour layer
Mode7Bg1Index(self) ==
    LET bg    == bg_settings(self, 1)
        px    == Wrap16(self.x + bg.hscroll)
        py    == Wrap16(self.scanline + bg.vscroll)
        entry == tilemap_entry(self, tilemap_entry_word_address(bg, px \div 8, py \div 8))
    IN  read_chr_entry(self, 8, Wrap16(Wrap16(bg.chr_addr * 2) + entry.tile_number * 64), 8,
                       px % 8, py % 8, FALSE, FALSE)

\* no sprite pixel of priority 1, 2 or 3 is shown at the current pixel
NoSpriteAbove(self) ==
    \A p \in 1..3 : ~DocHits(self, FALSE, <<"OBJ", p>>)

\* C3: in BG mode 7 render_pixel produces a pixel by consulting OBJ3, OBJ2, BG2.1 (only
\* with EXTBG = setini bit 6), OBJ1, BG1, OBJ0, BG2.0 (only with EXTBG) in this order,
\* and an enabled BG1 contributes its non-transparent pixel whatever the priority bit
\* of its tilemap entry is, as a 256-colour layer with palette base 0.
C3_Mode7Dispatch ==
    (pc = "rendered" /\ bg_mode(ppu) = 7) =>
        /\ call.main.tag = "Ok"
        /\ LET order == Mode7Order(BitSet(ppu.setini, 6))
               n     == Len(call.main.consulted)
           IN  n <= Len(order) /\ \A i \in 1..n : DocOf(call.main.consulted[i]) = order[i]
        /\ (/\ BitSet(ppu.tm, 0)
            /\ ~mask_layer(ppu, FALSE, 1)
            /\ Mode7Bg1Index(ppu) # 0
            /\ NoSpriteAbove(ppu)
            /\ (BitSet(ppu.setini, 6) => ~BitSet(ppu.tm, 1)))
           => (call.main.layer = Bg1 /\ call.main.color = ppu.cgram[Mode7Bg1Index(ppu)])

(***************************************************************************)
(* Windows.                                                                *)
(***************************************************************************)
\* the 4-bit window selection of mask k (1..4 the BGs, 5 the sprites, 6 the colour
\* window) as the registers hold it
DocField(self, k) ==
    CASE k = 1 -> self.w12sel % 16   [] k = 2 -> (self.w12sel \div 16) % 16
      [] k = 3 -> self.w34sel % 16   [] k = 4 -> (self.w34sel \div 16) % 16
      [] k = 5 -> self.wobjsel % 16  [] k = 6 -> (self.wobjsel \div 16) % 16

\* the two combinator bits of mask k
DocCombinator(self, k) ==
    CASE k = 1 -> self.wbglog % 4            [] k = 2 -> (self.wbglog \div 4) % 4
      [] k = 3 -> (self.wbglog \div 16) % 4  [] k = 4 -> (self.wbglog \div 64) % 4
      [] k = 5 -> self.wobjlog % 4           [] k = 6 -> (self.wobjlog \div 4) % 4

\* the documented result of a mask: field = {bit 3 W2 enable, bit 2 W2 invert, bit 1 W1
\* enable, bit 0 W1 invert}, comb = 0 OR, 1 AND, 2 XOR, 3 XNOR
DocMask(field, comb, inw1, inw2) ==
    LET w2en == (field \div 8) % 2 = 1
        w1en == (field \div 2) % 2 = 1
        a    == inw1 # ((field % 2) = 1)
        b    == inw2 # ((field \div 4) % 2 = 1)
    IN  CASE ~w1en /\ ~w2en -> FALSE
          [] w1en /\ ~w2en  -> a
          [] ~w1en /\ w2en  -> b
          [] w1en /\ w2en   -> CASE comb = 0 -> a \/ b
                                 [] comb = 1 -> a /\ b
                                 [] comb = 2 -> (a /\ ~b) \/ (~a /\ b)
                                 [] comb = 3 -> (a /\ b) \/ (~a /\ ~b)

\* the documented result of mask k at the current pixel: window 1 is wh0 <= x < wh1,
\* window 2 is wh2 <= x < wh3
DocCheck(self, k) ==
    DocMask(DocField(self, k), DocCombinator(self, k),
            self.wh0 <= self.x /\ self.x < self.wh1,
            self.wh2 <= self.x /\ self.x < self.wh3)

\* C4: Mask::check of a mask unpacked from its 4-bit field and 2 combinator bits returns
\* false when neither window is enabled, a = in_w1 XOR w1inv when only W1 is, b = in_w2
\* XOR w2inv when only W2 is, and combinator(a, b) when both are, with in_w1 =
\* (wh0 <= x < wh1) and in_w2 = (wh2 <= x < wh3), so that a window with left = right
\* contains no x.  BG1, enabled and masked by tmw, shows exactly where its check is false.
C4_MaskCheck ==
    pc = "rendered" =>
        /\ \A k \in 1..6 : call.checks[k] = DocCheck(ppu, k)
        /\ call.main.tag = "Ok"
        /\ (call.main.layer = Backdrop) = DocCheck(ppu, 1)
        /\ (call.main.layer = Bg1) = ~DocCheck(ppu, 1)

\* both windows enabled and combined by XOR; window 1 has left = right = x and does not
\* contain x, window 2 contains x: BG1 is masked
C4_XorEmptyW1 ==
    /\ pc = "rendered"
    /\ DocField(ppu, 1) = 10
    /\ DocCombinator(ppu, 1) = 2
    /\ ppu.wh0 = 2 /\ ppu.wh1 = 2 /\ ppu.x = 2
    /\ ppu.wh2 = 2 /\ ppu.wh3 = 3
    /\ call.checks[1]
    /\ call.main.layer = Backdrop

\* the documented masking of layer k (1..4 the BGs, 5 OBJ) on a screen: its enable bit in
\* tmw (main screen) or tsw (subscreen) is set and its window mask check is true
DocMasked(self, subscreen, k) ==
    /\ ((IF subscreen THEN self.tsw ELSE self.tmw) \div (2 ^ (k - 1))) % 2 = 1
    /\ DocCheck(self, k)

\* the layer number of a documented candidate
DocLayerNum(d) == IF d[1] = "OBJ" THEN 5 ELSE DocBg(d)

\* the candidates of the order whose pixel is non-transparent and whose layer is not
\* masked out
DocShown(self, subscreen, order) ==
    {i \in 1..Len(order) : /\ DocFound(self, subscreen, order[i]).tag = "Some"
                           /\ ~DocMasked(self, subscreen, DocLayerNum(order[i]))}

\* the result r of get_raw_pixel is the first shown candidate, every candidate before
\* it having been consulted, or the backdrop when none is shown
FirstShown(self, subscreen, order, r) ==
    LET shown == DocShown(self, subscreen, order)
    IN  IF shown = {}
        THEN r.layer = Backdrop /\ Len(r.consulted) = Len(order)
        ELSE LET w == CHOOSE i \in shown : \A j \in shown : i <= j
             IN  /\ r.layer = DocLayer(order[w], DocFound(self, subscreen, order[w]))
                 /\ r.color = DocFound(self, subscreen, order[w]).rgb
                 /\ Len(r.consulted) = w

\* C5: a layer (BG1-4 or OBJ) is masked out at a pixel exactly when its enable bit in tmw
\* (main screen) or tsw (subscreen) is set and its window mask check is true; a masked
\* hit is skipped and dispatch goes on with the next candidate, and a layer whose tmw /
\* tsw bit is clear is never masked.
C5_LayerMasking ==
    pc = "rendered" =>
        /\ \A k \in 1..5 : \A subscreen \in BOOLEAN :
              mask_layer(ppu, subscreen, k) = DocMasked(ppu, subscreen, k)
        /\ call.main.tag = "Ok"
        /\ FirstShown(ppu, FALSE, DocumentedOrder(0, FALSE), call.main)
        /\ call.sub.tag = "Ok" => FirstShown(ppu, TRUE, DocumentedOrder(0, FALSE), call.sub)

\* BG1 hits first but is masked out on the main screen, and BG2 shows instead; BG3's
\* window check is true as well, but its tmw bit is clear
C5_MaskedHitSkipped ==
    /\ pc = "rendered"
    /\ ppu.tmw = 1
    /\ ppu.oam = << >>
    /\ lookup_bg_color(ppu, 1, 0).tag = "Some"
    /\ DocCheck(ppu, 1)
    /\ DocCheck(ppu, 3)
    /\ call.main.layer = Bg2
    /\ Len(call.main.consulted) = 6

\* mask k of the current registers (1..4 the BGs, 5 the sprites, 6 the colour window)
MaskOf(self, k) == IF k = 6 THEN mask_color(self) ELSE layer_mask(self, k)

\* a mask with both invert bits inverted and the combinator negated: OR <-> AND,
\* XOR <-> XNOR
Negated(mask) ==
    [mask EXCEPT !.w1_inv = ~mask.w1_inv, !.w2_inv = ~mask.w2_inv,
                 !.wop = CASE mask.wop = "Or" -> "And" [] mask.wop = "And" -> "Or"
                           [] mask.wop = "Xor" -> "XNor" [] mask.wop = "XNor" -> "Xor"]

\* C6 as stated: for every mask with both windows enabled and every (in_w1, in_w2),
\* inverting both invert bits and negating the combinator yields the same Mask::check
\* result as the original mask; and for every mask and input the XOR and XNOR
\* combinators give complementary results.
C6_SymmetryAsStated ==
    pc = "rendered" =>
        \A k \in 1..6 :
            /\ (MaskOf(ppu, k).w1_en /\ MaskOf(ppu, k).w2_en) =>
                  Mask_check(Negated(MaskOf(ppu, k)), in_w1(ppu), in_w2(ppu)) = call.checks[k]
            /\ Mask_check([MaskOf(ppu, k) EXCEPT !.wop = "Xor"], in_w1(ppu), in_w2(ppu))
                  = ~Mask_check([MaskOf(ppu, k) EXCEPT !.wop = "XNor"], in_w1(ppu), in_w2(ppu))

\* C6, amended: for every mask with both windows enabled and every (in_w1, in_w2),
\* inverting both invert bits and negating the combinator (OR <-> AND, XOR <-> XNOR)
\* yields the complement of the original Mask::check result; and for every mask with
\* both windows enabled the XOR and XNOR combinators give complementary results.
C6_SymmetryComplement ==
    pc = "rendered" =>
        \A k \in 1..6 :
            (MaskOf(ppu, k).w1_en /\ MaskOf(ppu, k).w2_en) =>
                /\ Mask_check(Negated(MaskOf(ppu, k)), in_w1(ppu), in_w2(ppu)) = ~call.checks[k]
                /\ \A a, b \in BOOLEAN :
                      /\ Mask_check(Negated(MaskOf(ppu, k)), a, b) = ~Mask_check(MaskOf(ppu, k), a, b)
                      /\ Mask_check([MaskOf(ppu, k) EXCEPT !.wop = "Xor"], a, b)
                            = ~Mask_check([MaskOf(ppu, k) EXCEPT !.wop = "XNor"], a, b)

\* BG1's mask has both windows enabled and combines them by OR, the pixel is inside
\* window 1 only: the mask hits, the negated mask does not
C6_OrBecomesAnd ==
    /\ pc = "rendered"
    /\ DocField(ppu, 1) = 10
    /\ DocCombinator(ppu, 1) = 0
    /\ in_w1(ppu) /\ ~in_w2(ppu)
    /\ call.checks[1]
    /\ call.main.layer = Backdrop
    /\ ~Mask_check(Negated(MaskOf(ppu, 1)), in_w1(ppu), in_w2(ppu))

(***************************************************************************)
(* Colour math.                                                            *)
(***************************************************************************)
\* the cgadsub bit of the layer of a main pixel: BG1..BG4 0..3, a sprite of palette >= 4
\* 4, the backdrop 5; an opaque sprite (palette < 4) has none
DocMathBit(self, layer) ==
    CASE layer.l = "Bg1" -> (self.cgadsub % 2) = 1
      [] layer.l = "Bg2" -> ((self.cgadsub \div 2) % 2) = 1
      [] layer.l = "Bg3" -> ((self.cgadsub \div 4) % 2) = 1
      [] layer.l = "Bg4" -> ((self.cgadsub \div 8) % 2) = 1
      [] layer.l = "Obj" -> ~layer.opaque /\ ((self.cgadsub \div 16) % 2) = 1
      [] layer.l = "Backdrop" -> ((self.cgadsub \div 32) % 2) = 1

\* cgwsel bits 5:4
DocMathRule(self) == (self.cgwsel \div 16) % 4

\* C7 as stated: for a main pixel whose layer's bit in cgadsub[5:0] is set, colour math
\* is applied by cgwsel bits 5:4 as 00 = always, 01 = only where the colour window
\* check is false, 10 = only where it is true, 11 = never; with the bit clear no math is
\* applied.
C7_MathRuleAsStated ==
    (pc = "rendered" /\ call.main.tag = "Ok") =>
        call.math = (/\ DocMathBit(ppu, call.main.layer)
                     /\ CASE DocMathRule(ppu) = 0 -> TRUE
                          [] DocMathRule(ppu) = 1 -> ~DocCheck(ppu, 6)
                          [] DocMathRule(ppu) = 2 -> DocCheck(ppu, 6)
                          [] DocMathRule(ppu) = 3 -> FALSE)

\* C7, amended: for a main pixel whose layer's bit in cgadsub[5:0] is set, colour math
\* is applied by cgwsel bits 5:4 as 00 = always, 01 = only where the colour window
\* check is true (inside the window), 10 = only where it is false (outside), 11 = never;
\* with the bit clear no math is applied.
C7_MathRule ==
    (pc = "rendered" /\ call.main.tag = "Ok") =>
        call.math = (/\ DocMathBit(ppu, call.main.layer)
                     /\ CASE DocMathRule(ppu) = 0 -> TRUE
                          [] DocMathRule(ppu) = 1 -> DocCheck(ppu, 6)
                          [] DocMathRule(ppu) = 2 -> ~DocCheck(ppu, 6)
                          [] DocMathRule(ppu) = 3 -> FALSE)

\* rule 01 on a BG1 pixel inside the colour window: the fixed colour is added
C7_Rule01InsideWindow ==
    /\ pc = "rendered"
    /\ call.main.layer = Bg1
    /\ ppu.cgadsub = 1
    /\ DocMathRule(ppu) = 1
    /\ DocCheck(ppu, 6)
    /\ call.math
    /\ call.post_math # call.main.color

\* C8: a main-screen pixel that comes from a sprite with palette < 4 (opaque) is never
\* changed by colour math: whatever cgadsub, cgwsel, the windows and the fixed colour or
\* subscreen are, the colour after the math is the raw sprite colour.
C8_OpaqueSpriteNoMath ==
    (pc = "rendered" /\ call.main.tag = "Ok" /\ call.main.layer.l = "Obj"
        /\ \E i \in 1..Len(ppu.sprites) : ppu.sprites[i].palette < 4) =>
        /\ call.main.layer.opaque
        /\ ~call.math
        /\ call.sub.tag = "NotRun"
        /\ call.post_math = call.main.color
        /\ call.post_math = ppu.cgram[128 + 16 * ppu.sprites[1].palette + 1]

\* a sprite of palette 3 on the main screen with the OBJ bit of cgadsub set, math
\* always on, subtracting a fixed colour that would change the pixel
C8_OpaqueSpriteMathOn ==
    /\ pc = "rendered"
    /\ call.main.layer = Obj(TRUE)
    /\ ppu.sprites[1].palette = 3
    /\ ppu.cgadsub = 128 + 16
    /\ DocMathRule(ppu) = 0
    /\ fixed_color(ppu) = <<8, 8, 8>>
    /\ call.post_math = <<9, 9, 9>>
    /\ ret.rgb = <<74, 74, 74>>

\* the subscreen's raw pixel: the dispatch run with the layers designated by ts and the
\* window masking enabled by tsw
DocSubscreenPixel(self) == get_raw_pixel([self EXCEPT !.tm = self.ts, !.tmw = self.tsw], FALSE)

\* the documented operand of the colour math
DocOperand(self) ==
    IF (self.cgwsel \div 2) % 2 = 0
    THEN <<self.coldata_r, self.coldata_g, self.coldata_b>>
    ELSE IF DocSubscreenPixel(self).layer.l = "Backdrop"
    THEN <<self.coldata_r, self.coldata_g, self.coldata_b>>
    ELSE DocSubscreenPixel(self).color

\* C9: when math applies, the operand is the fixed colour (coldata_r, coldata_g,
\* coldata_b) if cgwsel bit 1 is 0; otherwise it is the subscreen's raw pixel, obtained by
\* running the dispatch again with ts / tsw, except that the fixed colour is used when
\* the subscreen result has the tag Backdrop.  The subscreen is evaluated only when math
\* is enabled and cgwsel bit 1 is set.
C9_MathOperand ==
    (pc = "rendered" /\ call.main.tag = "Ok") =>
        /\ (call.sub.tag # "NotRun") = (call.math /\ (ppu.cgwsel \div 2) % 2 = 1)
        /\ call.math => (call.sub.tag # "Panic" /\ call.operand = DocOperand(ppu))

\* the documented result of the math on one channel
DocChannel(subtract, m, o) ==
    IF subtract THEN (IF m - o < 0 THEN 0 ELSE m - o)
    ELSE (IF m + o > 31 THEN 31 ELSE m + o)

\* the documented result of the math on a colour
DocMath(self, m, o) ==
    [i \in 1..3 |-> DocChannel((self.cgadsub \div 128) % 2 = 1, m[i], o[i])]

\* channel values at and around the ends and the middle of 0..31
ChannelSamples == {0, 1, 15, 16, 30, 31}

\* C10: the colour after the math is the channel-wise saturating sum min(31, m + o) when
\* cgadsub bit 7 is 0 and the saturating difference max(0, m - o) when it is 1, so that
\* every channel stays in 0..31 before brightness scaling and expansion.
C10_MathSaturates ==
    (pc = "rendered" /\ call.math /\ call.main.tag = "Ok" /\ call.sub.tag # "Panic") =>
        /\ call.post_math = DocMath(ppu, call.main.color, call.operand)
        /\ \A i \in 1..3 : call.post_math[i] \in 0..31
        /\ \A m, o \in ChannelSamples :
              /\ apply_math(ppu, <<m, o, 31 - m>>, <<o, m, o>>)
                    = DocMath(ppu, <<m, o, 31 - m>>, <<o, m, o>>)
              /\ \A i \in 1..3 : apply_math(ppu, <<m, o, 31 - m>>, <<o, m, o>>)[i] \in 0..31

\* red plus the fixed colour (8, 8, 8): the red channel saturates at 31, the others do not
C10_AddSaturates ==
    /\ pc = "rendered"
    /\ call.math
    /\ ppu.cgadsub = 1
    /\ call.main.color = <<31, 0, 0>>
    /\ call.operand = <<8, 8, 8>>
    /\ call.post_math = <<31, 8, 8>>
    /\ ret.rgb = <<255, 66, 66>>

\* the documented clip rule, cgwsel bits 7:6 against the colour window check: 00 never,
\* 01 where the check is false, 10 where it is true, 11 always
DocClip(self) ==
    CASE (self.cgwsel \div 64) % 4 = 0 -> FALSE
      [] (self.cgwsel \div 64) % 4 = 1 -> ~DocCheck(self, 6)
      [] (self.cgwsel \div 64) % 4 = 2 -> DocCheck(self, 6)
      [] (self.cgwsel \div 64) % 4 = 3 -> TRUE

\* C11: when colour math applies to a pixel and cgadsub bit 6 is set, each channel of
\* the saturating add / subtract result is divided by two, rounding toward zero, unless
\* the pixel was colour-clipped, in which case the result is not halved.
C11_HalfMath ==
    (pc = "rendered" /\ call.main.tag = "Ok" /\ call.math /\ (ppu.cgadsub \div 64) % 2 = 1) =>
        call.post_math =
            IF DocClip(ppu) THEN DocMath(ppu, call.main.color, call.operand)
            ELSE [i \in 1..3 |-> DocMath(ppu, call.main.color, call.operand)[i] \div 2]

\* the main screen's raw pixel with the clip rule set to 00 (never clip)
UnclippedMain(self) == get_raw_pixel([self EXCEPT !.cgwsel = self.cgwsel % 64], FALSE)

\* C12: whether or not math is enabled, cgwsel bits 7:6 select 00 = never clip, 01 = clip
\* where the colour window check is false, 10 = clip where it is true, 11 = always clip;
\* clipping replaces the colour of the main pixel by CGRAM[0] before the math and leaves
\* its layer tag, and with it the decision whether math applies, unchanged.
C12_ColourClip ==
    (pc = "rendered" /\ call.main.tag = "Ok") =>
        /\ call.main.layer = UnclippedMain(ppu).layer
        /\ call.main.color = IF DocClip(ppu) THEN ppu.cgram[0] ELSE UnclippedMain(ppu).color
        /\ call.math = (DocMathBit(ppu, UnclippedMain(ppu).layer) /\ DocMathRule(ppu) = 0)
        /\ (ppu.cgadsub \div 64) % 2 = 0 =>
              call.post_math = IF call.math THEN DocMath(ppu, call.main.color, call.operand)
                               ELSE call.main.color

\* rule 01 outside the colour window: the red BG1 pixel is replaced by CGRAM[0], keeps
\* the tag Bg1, and the fixed colour is added to the replacement
C12_ClippedOutside ==
    /\ pc = "rendered"
    /\ (ppu.cgwsel \div 64) % 4 = 1
    /\ DocField(ppu, 6) = 2
    /\ ~DocCheck(ppu, 6)
    /\ ppu.cgadsub = 63
    /\ call.main.layer = Bg1
    /\ call.math
    /\ UnclippedMain(ppu).color = <<31, 0, 0>>
    /\ call.main.color = <<1, 2, 3>>
    /\ call.post_math = <<9, 11, 31>>

(***************************************************************************)
(* Brightness.                                                             *)
(***************************************************************************)
\* the documented scaling of one 5-bit channel by the master brightness b
DocScale(b, c) == IF b = 0 THEN 0 ELSE (c * (b + 1)) \div 16

\* the documented display expansion of one 5-bit channel: the five bits followed by
\* their top three bits
DocExpand(c) == c * 8 + c \div 4

\* C13: after colour math each 5-bit channel c becomes floor(c * (brightness + 1) / 16)
\* for brightness 1..15 and 0 for brightness 0; so brightness 15 leaves every channel
\* unchanged, and every scaled channel is in 0..31 and not greater than c.
C13_BrightnessScaling ==
    (pc = "rendered" /\ call.main.tag = "Ok") =>
        /\ \A i \in 1..3 :
              /\ call.final[i] = DocScale(ppu.inidisp % 16, call.post_math[i])
              /\ call.final[i] \in 0..31
              /\ call.final[i] <= call.post_math[i]
        /\ ppu.inidisp % 16 = 15 => call.final = call.post_math
        /\ \A c \in 0..31 :
              LET f == final_color(ppu, <<c, 31 - c, c>>)
              IN  /\ f = <<DocScale(ppu.inidisp % 16, c), DocScale(ppu.inidisp % 16, 31 - c),
                           DocScale(ppu.inidisp % 16, c)>>
                  /\ f[1] \in 0..31 /\ f[1] <= c

\* brightness 7 halves the colour (31, 8, 8) that the math gave, rounding down
C13_HalfBrightness ==
    /\ pc = "rendered"
    /\ ppu.inidisp = 7
    /\ call.math
    /\ call.post_math = <<31, 8, 8>>
    /\ call.final = <<15, 4, 4>>
    /\ ret.rgb = <<123, 33, 33>>

\* the RGB value render_pixel returns for the current pixel with master brightness b,
\* everything else as it is
AtBrightness(self, b) ==
    render_pixel([self EXCEPT !.inidisp = (self.inidisp \div 16) * 16 + b]).ret.rgb

\* C14: with every other input fixed and forced blank clear, for all brightness values
\* b1 <= b2 in 0..15 each output channel of render_pixel at b1 is at most the same
\* channel at b2, brightness 0 included.
C14_BrightnessMonotone ==
    (pc = "rendered" /\ call.main.tag = "Ok" /\ ~forced_blank(ppu)) =>
        /\ ret.rgb = AtBrightness(ppu, ppu.inidisp % 16)
        /\ \A b2 \in 0..15 : \A i \in 1..3 :
              ppu.inidisp % 16 <= b2 => ret.rgb[i] <= AtBrightness(ppu, b2)[i]

\* a pixel rendered at brightness 0 is black, and has a brighter channel at brightness 1
C14_DarkestPixel ==
    /\ pc = "rendered"
    /\ ppu.inidisp = 0
    /\ ret.rgb = <<0, 0, 0>>
    /\ call.post_math = <<31, 16, 1>>
    /\ AtBrightness(ppu, 1) = <<24, 16, 0>>
    /\ AtBrightness(ppu, 15) = <<255, 132, 8>>

(***************************************************************************)
(* Backdrop and transparency.                                              *)
(***************************************************************************)
\* CGRAM[0] after brightness scaling and display expansion
DocBackdropRgb(self) ==
    [i \in 1..3 |-> DocExpand(DocScale(self.inidisp % 16, self.cgram[0][i]))]

\* colour math is enabled for a backdrop pixel: cgadsub bit 5 is set and the cgwsel rule
\* does not prevent it at this pixel
DocBackdropMath(self) ==
    /\ (self.cgadsub \div 32) % 2 = 1
    /\ CASE DocMathRule(self) = 0 -> TRUE
         [] DocMathRule(self) = 1 -> DocCheck(self, 6)
         [] DocMathRule(self) = 2 -> ~DocCheck(self, 6)
         [] DocMathRule(self) = 3 -> FALSE

\* C15 as stated: if all five layer bits of tm are clear and forced blank is clear, then
\* for every value of the other registers render_pixel returns the CGRAM[0] colour
\* after brightness scaling and display expansion.
C15_BackdropAsStated ==
    (pc = "rendered" /\ ppu.tm % 32 = 0 /\ ~forced_blank(ppu)) =>
        ret = [tag |-> "Rgb", rgb |-> DocBackdropRgb(ppu)]

\* C15, amended: if all five layer bits of tm are clear, forced blank is clear and colour
\* math is not enabled for the backdrop at this pixel (cgadsub bit 5 clear, or prevented
\* by the cgwsel bits 5:4 rule), then for every value of the other registers
\* render_pixel returns the CGRAM[0] colour after brightness scaling and display
\* expansion.
C15_BackdropFallback ==
    (pc = "rendered" /\ ppu.tm % 32 = 0 /\ ~forced_blank(ppu) /\ ~DocBackdropMath(ppu)) =>
        /\ ret = [tag |-> "Rgb", rgb |-> DocBackdropRgb(ppu)]
        /\ call.main.layer = Backdrop
        /\ call.sub.tag = "NotRun"

\* mode 7 at brightness 7 with every layer on the subscreen and a sprite at the pixel,
\* the upper bits of tm set, math enabled for everything but the backdrop
C15_NothingDesignated ==
    /\ pc = "rendered"
    /\ ppu.tm = 224
    /\ ppu.ts = 31
    /\ bg_mode(ppu) = 7
    /\ ppu.cgadsub = 31
    /\ ppu.inidisp = 7
    /\ Len(ppu.sprites) = 1
    /\ ret.rgb = <<0, 8, 8>>

(***************************************************************************)
(* C16: palette index 0 is transparent.                                    *)
(***************************************************************************)
\* the byte of VRAM at a byte address
DocByte(self, a) == IF a \in DOMAIN self.vram THEN self.vram[a] ELSE 0

\* the palette index stored for pixel (x, y) of the 8x8 tile at byte address start
\* with bpp bitplanes: plane p is bit 7 - x of the byte at
\* start + 16 * (p div 2) + 2 * y + (p mod 2)
DocPixel(self, start, bpp, x, y) ==
    LET plane(p) == (DocByte(self, start + 16 * (p \div 2) + 2 * y + (p % 2)) \div 2 ^ (7 - x)) % 2
        RECURSIVE sum(_)
        sum(p) == IF p = bpp THEN 0 ELSE 2 ^ p * plane(p) + sum(p + 1)
    IN  sum(0)

\* bitplanes of BG n in BG modes 0 and 1
DocBpp(self, n) == IF self.bgmode % 8 = 0 THEN 2 ELSE IF n <= 2 THEN 4 ELSE 2

\* the high byte of the tilemap entry under the top-left tile of BG n
DocEntryHigh(self, n) == DocByte(self, 2 * BgTilemapWord(n) + 1)

\* palette index, palette base and priority of a documented candidate's tile at the
\* current pixel of the top-left tile
DocIndex(self, d) ==
    IF d[1] = "OBJ"
    THEN IF self.x < 8 THEN DocPixel(self, SpriteTile * 32, 4, self.x, self.scanline) ELSE 0
    ELSE DocPixel(self, BgChrByte(DocBg(d)), DocBpp(self, DocBg(d)), self.x, self.scanline)

DocPaletteBase(self, d) ==
    IF d[1] = "OBJ" THEN 128 + 16 * self.oam[1].palette
    ELSE LET pal == (DocEntryHigh(self, DocBg(d)) \div 4) % 8
         IN  IF self.bgmode % 8 = 0 THEN 32 * (DocBg(d) - 1) + 4 * pal
             ELSE IF DocBpp(self, DocBg(d)) = 4 THEN 16 * pal ELSE 4 * pal

DocDrawn(self, d) ==
    IF d[1] = "OBJ" THEN (self.tm \div 16) % 2 = 1 /\ self.oam[1].priority = d[2]
    ELSE /\ (self.tm \div 2 ^ (DocBg(d) - 1)) % 2 = 1
         /\ (DocEntryHigh(self, DocBg(d)) \div 32) % 2 = d[2]

\* C16: a BG or sprite candidate whose decoded palette index at the pixel is 0 yields
\* no colour whatever its palette number: the main-screen result is that of the first
\* candidate in the priority list that is drawn with a non-zero index, its colour
\* CGRAM[palette_base + index], or the backdrop with CGRAM[0] when there is none;
\* entry 0 of a tile's palette is never the colour of the pixel.
C16_TransparentPalette ==
    (pc = "rendered" /\ call.main.tag # "NotRun") =>
        LET r == call.main
            n == Len(r.consulted)
            d(i) == DocOf(r.consulted[i])
            shows(i) == DocDrawn(ppu, d(i)) /\ DocIndex(ppu, d(i)) # 0
        IN  /\ r.tag = "Ok"
            /\ \A i \in 1..n : DocIndex(ppu, d(i)) = 0 => (i < n \/ r.layer.l = "Backdrop")
            /\ \A i \in 1..n : shows(i) <=> (i = n /\ r.layer.l # "Backdrop")
            /\ r.layer.l = "Backdrop" => n = Len(layer_list(ppu)) /\ r.color = ppu.cgram[0]
            /\ r.layer.l # "Backdrop" =>
                   /\ r.layer.l = DocLayer(d(n), [opaque |-> FALSE]).l
                   /\ r.color = ppu.cgram[DocPaletteBase(ppu, d(n)) + DocIndex(ppu, d(n))]
            /\ \A i \in 1..n : DocIndex(ppu, d(i)) = 0 =>
                   r.color # ppu.cgram[DocPaletteBase(ppu, d(i))] \/ DocPaletteBase(ppu, d(i)) = 0

\* BG1 and the sprite are transparent at the pixel and have palettes other than 0;
\* BG2 below them is shown
C16_FallsThroughToBg2 ==
    /\ pc = "rendered"
    /\ ppu.x = 1
    /\ ppu.tm = 19
    /\ DocIndex(ppu, <<"BG1", 0>>) = 0 /\ DocPaletteBase(ppu, <<"BG1", 0>>) = 28
    /\ DocIndex(ppu, <<"OBJ", 2>>) = 0 /\ ppu.oam[1].palette = 5
    /\ call.main.layer = Bg2
    /\ call.main.color = ppu.cgram[62]
    /\ ret.tag = "Rgb"

(***************************************************************************)
(* C18: the bitplane decoder inverts the interleaved tile format.          *)
(***************************************************************************)
\* C18: for 2, 4 and 8 bitplanes and a tile written into VRAM in the interleaved
\* format at start, read_chr_entry(bpp, start, 8, (x, y), no flip) returns the pixel
\* value the tile was written from, at every (x, y), and the result is in 0..2^bpp-1.
C18_BitplaneRoundTrip ==
    pc = "read" =>
        /\ ret.index = call.tile[<<call.x, call.y>>]
        /\ ret.index \in 0..(2 ^ call.bitplane_count - 1)

\* an 8-bitplane tile whose only non-zero pixel, at (3, 5), has the bit of the highest
\* plane alone, read back at that pixel
C18_HighestPlaneAlone ==
    /\ pc = "read"
    /\ call.bitplane_count = 8
    /\ call.x = 3 /\ call.y = 5
    /\ \A c \in Coords : call.tile[c] = IF c = <<3, 5>> THEN 128 ELSE 0
    /\ DocByte(ppu, call.start_addr + 48 + 10 + 1) = 16
    /\ ret.index = 128

(***************************************************************************)
(* C19: tile_x 32 and tile_x 0 on a tilemap one screen wide.               *)
(***************************************************************************)
\* the address lookup_bg_color computes for tile_x = 0 in the row of the last lookup
AddressAtTileX0 ==
    tilemap_entry_word_address(bg_settings(ppu, call.bg_num), 0, call.tile_y)

\* C19 as stated: with tilemap_mirror_h of bg_settings false, the tilemap entry word
\* address for tile_x = 32 equals the address for tile_x = 0, for every tile_y, tilemap
\* base and vertical mirror setting.
C19_MirrorAsStated ==
    (pc = "addressed" /\ call.tile_x = 32 /\ ~bg_settings(ppu, call.bg_num).tilemap_mirror_h) =>
        call.tilemap_entry_word_address = AddressAtTileX0

\* C19 amended: with tilemap_mirror_h of bg_settings true (bit 0 of bgsc clear, the
\* tilemap one screen wide), the tilemap entry word address for tile_x = 32 equals the
\* address for tile_x = 0, for every tile_y, tilemap base and vertical mirror setting.
C19_MirrorWraparound ==
    (pc = "addressed" /\ call.tile_x = 32 /\ bg_settings(ppu, call.bg_num).tilemap_mirror_h) =>
        call.tilemap_entry_word_address = AddressAtTileX0

\* tile (32, 33) of a tilemap one screen wide and two screens high at base 2:
\* the entry of column 0, row 1 of the second screen
C19_SecondScreenDown ==
    /\ pc = "addressed"
    /\ call.tile_x = 32 /\ call.tile_y = 33
    /\ bg_settings(ppu, call.bg_num).tilemap_mirror_h
    /\ ~bg_settings(ppu, call.bg_num).tilemap_mirror_v
    /\ bg_settings(ppu, call.bg_num).tilemap_word_addr = 2048
    /\ call.tilemap_entry_word_address = 2048 + 1024 + 32

(***************************************************************************)
(* C20: the sprite pre-scan and the layer lookups of a scanline.           *)
(***************************************************************************)
\* what a call of render_pixel did
Did(c, event) == \E i \in DOMAIN c.events : c.events[i] = event

\* the sprite line cache the pre-scan produces for the scanline of self
DocLineCache(self) == collect_sprite_data_for_scanline(self).sprites

\* C20: in calls made in scan order, with registers (forced blank among them) changing
\* between calls, the call at x = 0 of every scanline runs the sprite pre-scan, no
\* other call does, and a call that does layer lookups on scanline y reads the sprite
\* cache that the pre-scan of scanline y produced.
C20_PrescanOrdering ==
    [][(pc = "idle" /\ pc' = "rendered" /\ ret'.tag # "Panic") =>
          /\ Did(call', "prescan") <=> ppu.x = 0
          /\ Did(call', "main_lookup") => ppu'.sprites = DocLineCache(ppu)]_vars

(***************************************************************************)
(* C21: the sprite overflow flags at the start of a frame.                 *)
(***************************************************************************)
\* the overflow flags after the first call of a frame that clears them and pre-scans
DocFrameStart(self) ==
    collect_sprite_data_for_scanline([self EXCEPT !.range_over = FALSE, !.time_over = FALSE])

\* C21: in calls made in scan order the call for pixel (0, 0) of every frame clears
\* range_over and time_over, before its sprite pre-scan and its layer lookups, and no
\* call for another pixel clears them.
C21_FrameStartReset ==
    [][(pc = "idle" /\ pc' = "rendered" /\ ret'.tag # "Panic") =>
          /\ Did(call', "clear_flags") <=> (ppu.x = 0 /\ ppu.scanline = 0)
          /\ Did(call', "clear_flags") => call'.events[1] = "clear_flags"
          /\ (ppu.x = 0 /\ ppu.scanline = 0) =>
                 /\ ppu'.range_over = DocFrameStart(ppu).range_over
                 /\ ppu'.time_over = DocFrameStart(ppu).time_over
          /\ ~(ppu.x = 0 /\ ppu.scanline = 0) =>
                 /\ ppu.range_over => ppu'.range_over
                 /\ ppu.time_over => ppu'.time_over]_vars

(***************************************************************************)
(* C22: memory accesses of a BG lookup stay in range.                      *)
(***************************************************************************)
\* the BG lookups of a get_raw_pixel call that got past the enable test
DocLookedUp(self, r) ==
    {r.consulted[i].bg : i \in {j \in DOMAIN r.consulted :
                                  r.consulted[j].kind = "BG" /\ bg_enabled(self, r.consulted[j].bg)}}

\* C22: in BG modes 0 to 6 every VRAM byte address computed during a BG lookup (the
\* tilemap entry's, the bitplane start chr base + tile_number * 8 * bpp, the pair and
\* row offsets) lies in 0..65535 without 16-bit overflow, and every CGRAM index
\* palette_base + palette_index lies in 0..255.
C22_InfallibleAccess ==
    (pc = "rendered" /\ bg_mode(ppu) \in 0..6) =>
        \A bg \in DocLookedUp(ppu, call.main) :
            LET a == lookup_bg_addresses(ppu, bg)
            IN  /\ a.byte_address + 1 < 65536
                /\ a.chr_byte < 65536
                /\ a.bitplane_start_addr < 65536
                /\ a.last_byte < 65536
                /\ a.cgram_index \in 0..255

(***************************************************************************)
(* C23: the length test of Rom::from_bytes.                                *)
(***************************************************************************)
\* C23: from_bytes returns Err and constructs no Rom for every input whose length
\* modulo 1024 is neither 0 nor 512; when the remainder is 512 exactly the first 512
\* bytes are discarded before header detection; when it is 0 no byte is discarded.
C23_LengthTest ==
    pc = "loaded" =>
        LET len == call.bytes.len
            cut == IF len % 1024 = 512 THEN 512 ELSE 0
        IN  /\ len % 1024 \notin {0, 512} => ret.tag = "Err" /\ ret.rom = NoRom
            /\ len % 1024 \in {0, 512} =>
                   /\ ret.tag # "Err"
                   /\ ret.bytes.start = cut /\ ret.bytes.len = len - cut
                   /\ ret.tag = "Ok" =>
                          /\ ret.rom.rom_len >= len - cut
                          /\ \A i \in {0, 1, 511, 512, len - cut - 1} :
                                 rom_byte(ret.rom, i) = ImageByte(call.bytes.image, cut + i)
                          /\ ret.rom.header.rom_size
                                 = 1024 * 2 ^ (ImageByte(call.bytes.image,
                                                 cut + (IF ret.rom.header.rom_type = "LoRom"
                                                        THEN 32704 ELSE 65472) + 23) % 16)

\* a 64 KiB HiROM image behind an SMC header: loaded, and the ROM starts after the header
C23_SmcHeaderStripped ==
    /\ pc = "loaded"
    /\ call.bytes.len = 66048
    /\ call.bytes.image.smc /\ call.bytes.image.header_at = 65472
    /\ call.bytes.image.makeup = 33 /\ call.bytes.image.title_ok /\ call.bytes.image.sum_ok
    /\ ret.tag = "Ok"
    /\ ret.rom.header.rom_type = "HiRom"
    /\ ret.rom.rom.start = 512
    /\ rom_byte(ret.rom, 0) = 3

(***************************************************************************)
(* C24: the BG enable bits of the screen being rendered.                   *)
(***************************************************************************)
\* bit n - 1 of a screen designation register
DocDesignated(reg, n) == (reg \div 2 ^ (n - 1)) % 2 = 1

\* C24: a BG lookup returns None iff bit n - 1 of tm is clear when the main screen is
\* rendered and iff bit n - 1 of ts is clear when the subscreen is rendered: a BG is the
\* result of a screen only if that screen's register designates it, and a solid BG
\* that alone is designated in ts, unmasked, is the subscreen's result whatever tm holds.
C24_BgEnableFollowsScreen ==
    pc = "rendered" =>
        /\ call.main.tag = "Ok" =>
               \A n \in 1..4 : call.main.layer = bglayer(n) => DocDesignated(ppu.tm, n)
        /\ call.sub.tag = "Ok" =>
               \A n \in 1..4 :
                   /\ call.sub.layer = bglayer(n) => DocDesignated(ppu.ts, n)
                   /\ (ppu.ts = 2 ^ (n - 1) /\ ppu.tsw = 0 /\ bg_mode(ppu) = 0)
                          => call.sub.layer = bglayer(n)

(***************************************************************************)
(* C25: the flip flags of a tilemap entry.                                 *)
(***************************************************************************)
\* the flip flags of the tilemap entry under the top-left tile of BG1
DocFlips(self) ==
    [v |-> (DocEntryHigh(self, 1) \div 128) % 2 = 1, h |-> (DocEntryHigh(self, 1) \div 64) % 2 = 1]

\* C25: lookup_bg_color decodes the tile pixel using the hflip and vflip flags of the
\* tilemap entry: with hflip set the pixel shown at in-tile offset ox is the tile's
\* stored pixel at 7 - ox, and likewise for vflip and oy.
C25_TileFlipping ==
    (pc = "rendered" /\ call.main.tag = "Ok") =>
        LET ox == IF DocFlips(ppu).h THEN 7 - ppu.x ELSE ppu.x
            oy == IF DocFlips(ppu).v THEN 7 - ppu.scanline ELSE ppu.scanline
        IN  /\ call.main.layer = Bg1
            /\ call.main.color = ppu.cgram[FlipTile[<<ox, oy>>]]

(***************************************************************************)
(* C26: the address of a tile's character data.                            *)
(***************************************************************************)
\* the 4-bit character base field of BG1 and the tile number of its top-left entry
DocChrField(self) == self.bg12nba % 16

DocTileNumber(self) ==
    LET at == (2 * ((self.bg1sc \div 4) * 1024)) % 65536
    IN  (DocByte(self, at + 1) % 4) * 256 + DocByte(self, at)

\* the byte address of BG1's tile with the character base counted in units of unit bytes
DocChrAddress(self, unit) ==
    (DocChrField(self) * unit + DocTileNumber(self) * 8 * Bg1Bitplanes(self.bgmode % 8)) % 65536

\* the lookup of BG1 decoded the tile stored at byte address at
DocDecodedAt(self, r, at) ==
    /\ lookup_bg_addresses(self, 1).bitplane_start_addr % 65536 = at
    /\ r.layer = Bg1
    /\ r.color = self.cgram[lookup_bg_addresses(self, 1).palette_base
                            + DocPixel(self, at, Bg1Bitplanes(self.bgmode % 8), self.x, self.scanline)]

\* C26 as stated: the VRAM byte address of the tile's bitplane data is
\* chr_base + tile_number * 8 * bpp with chr_base the 4-bit field of bg12nba counted in
\* 4 KiB units.
C26_AddressAsStated ==
    (pc = "rendered" /\ call.main.tag = "Ok") =>
        DocDecodedAt(ppu, call.main, DocChrAddress(ppu, 4096))

\* C26 amended: the VRAM byte address of the tile's bitplane data is
\* chr_base + tile_number * 8 * bpp, truncated to 16 bits, with chr_base the 4-bit field
\* of bg12nba counted in units of 4096 words, 8 KiB.
C26_CharacterAddress ==
    (pc = "rendered" /\ call.main.tag = "Ok") =>
        DocDecodedAt(ppu, call.main, DocChrAddress(ppu, 8192))

\* 16-colour BG1 with character base 3 and tile 511: decoded from byte 24576 + 16352
C26_Base3Tile511 ==
    /\ pc = "rendered"
    /\ call.main.tag = "Ok" /\ call.main.layer = Bg1
    /\ bg_mode(ppu) = 1
    /\ DocChrField(ppu) = 3 /\ DocTileNumber(ppu) = 511
    /\ DocChrAddress(ppu, 8192) = 40928
    /\ DocPixel(ppu, 40928, 4, ppu.x, ppu.scanline) = 3

(***************************************************************************)
(* C27: the palette base of a BG tile.                                     *)
(***************************************************************************)
\* the documented colour count of a BG in modes 0 to 6
DocColours(mode, bg) ==
    CASE mode = 0 -> 4
      [] mode = 1 -> IF bg = 3 THEN 4 ELSE 16
      [] mode = 2 -> 16
      [] mode = 3 -> IF bg = 1 THEN 256 ELSE 16
      [] mode = 4 -> IF bg = 1 THEN 256 ELSE 4
      [] mode = 5 -> IF bg = 1 THEN 16 ELSE 4
      [] mode = 6 -> 16

\* the documented palette base
DocBase(mode, bg, pal) ==
    CASE mode = 0 -> pal * 4 + (bg - 1) * 32
      [] mode \in {1, 5} -> pal * DocColours(mode, bg)
      [] mode \in {2, 6} -> pal * 16
      [] mode = 3 -> IF bg = 1 THEN 0 ELSE pal * 16
      [] mode = 4 -> IF bg = 1 THEN 0 ELSE pal * 4

\* the bitplanes of a colour count
DocPlanes(colours) == CASE colours = 4 -> 2 [] colours = 16 -> 4 [] colours = 256 -> 8

\* the BG alone on the main screen
DocOnlyBg(self) == CHOOSE n \in 1..4 : self.tm = 2 ^ (n - 1)

\* C27: for every BG that the dispatch consults in modes 0 to 6 and every palette
\* number, a non-zero palette index yields CGRAM[palette_base + index] with the
\* documented palette base, and every (mode, BG) pair the dispatch reaches has an entry
\* in the colour-count and palette-base tables.
C27_PaletteBase ==
    pc = "rendered" =>
        LET mode == ppu.bgmode % 8
            bg   == DocOnlyBg(ppu)
            pal  == (DocEntryHigh(ppu, bg) \div 4) % 8
            idx  == DocPixel(ppu, BgChrByte(bg), DocPlanes(DocColours(mode, bg)), ppu.x, ppu.scanline)
        IN  /\ \A i \in DOMAIN layer_list(ppu) :
                  layer_list(ppu)[i].kind = "BG" =>
                      /\ color_count_for_bg(ppu, layer_list(ppu)[i].bg) # PanicValue
                      /\ palette_base_for_bg_tile(ppu, layer_list(ppu)[i].bg, pal) # PanicValue
            /\ idx # 0
            /\ call.main.tag = "Ok" =>
                  /\ call.main.layer = bglayer(bg)
                  /\ call.main.color = ppu.cgram[DocBase(mode, bg, pal) + idx]
            /\ (mode \notin {5, 6} \/ build = "release") => call.main.tag = "Ok"

\* BG4 of mode 0 with palette 7: CGRAM[28 + 96 + 3]
C27_Mode0Bg4 ==
    /\ pc = "rendered"
    /\ bg_mode(ppu) = 0 /\ ppu.tm = 8
    /\ (DocEntryHigh(ppu, 4) \div 4) % 8 = 7
    /\ call.main.tag = "Ok" /\ call.main.layer = Bg4
    /\ call.main.color = ppu.cgram[127]

(***************************************************************************)
(* C28: BGs with 16x16 tiles.                                              *)
(***************************************************************************)
\* BG1 uses 16x16 tiles: its size bit of bgmode in modes 0 to 4, always in modes 5, 6
DocLargeTiles(self) ==
    IF self.bgmode % 8 \in {5, 6} THEN TRUE ELSE (self.bgmode \div 16) % 2 = 1

\* C28: when BG1 uses 16x16 tiles the pixel at in-tile offset (ox, oy) in 0..15 is
\* decoded from the 8x8 subtile numbered tile_number + (ox >> 3) + 16 * (oy >> 3) at
\* offset (ox & 7, oy & 7), and the decoder is only invoked with arguments that satisfy
\* its assertions, so that no call panics.
C28_LargeTiles ==
    (pc = "rendered" /\ DocLargeTiles(ppu)) =>
        LET bpp == IF ppu.bgmode % 8 = 5 THEN 4 ELSE 2
            ox  == (ppu.x + ppu.bg1hofs) % 16
            oy  == (ppu.scanline + ppu.bg1vofs) % 16
            sub == DocTileNumber(ppu) + ox \div 8 + 16 * (oy \div 8)
        IN  /\ ret.tag # "Panic"
            /\ call.main.tag = "Ok"
            /\ call.main.layer = Bg1
            /\ call.main.color = ppu.cgram[DocPixel(ppu, sub * 8 * bpp, bpp, ox % 8, oy % 8)]

(***************************************************************************)
(* C29: what a call of render_pixel may change.                            *)
(***************************************************************************)
\* registers, VRAM, CGRAM, OAM and the beam position
DocInputs(self) ==
    [f \in DOMAIN self \ {"sprites", "range_over", "time_over"} |-> self[f]]

\* C29: no call of render_pixel writes registers, VRAM, CGRAM or OAM; a call with
\* forced blank set or with x # 0 leaves range_over, time_over and the sprite line
\* cache as they were; a call with forced blank clear and x = 0 rebuilds the cache; the
\* overflow flags are cleared only by a call with forced blank clear at x = 0,
\* scanline = 0.
C29_RenderPixelFrame ==
    [][(pc = "idle" /\ pc' = "rendered") =>
          /\ DocInputs(ppu') = DocInputs(ppu)
          /\ (forced_blank(ppu) \/ ppu.x # 0) => ppu' = ppu
          /\ (~forced_blank(ppu) /\ ppu.x = 0) => ppu'.sprites = DocLineCache(ppu)
          /\ ((ppu.range_over /\ ~ppu'.range_over) \/ (ppu.time_over /\ ~ppu'.time_over))
                 => (~forced_blank(ppu) /\ ppu.x = 0 /\ ppu.scanline = 0)]_vars

\* a call under forced blank at the first pixel of scanline 1, after the sprite cache
\* was built for scanline 0 and with the overflow flags set: all of it kept
C29_BlankedCallKeepsState ==
    /\ pc = "rendered"
    /\ call.blanked
    /\ ppu.x = 0 /\ ppu.scanline = 1
    /\ ppu.range_over /\ ppu.time_over
    /\ ppu.sprites # DocLineCache(ppu)

=============================================================================
